---- MODULE Spec2Model ----
(***************************************************************************)
(* GoLangProxy: the request handler, the configuration and certificate     *)
(* stores with their watchers, the response cache and the per-client rate  *)
(* limiter of the single-package proxy (proxy.go, config.go,               *)
(* certificate.go, utils.go), as a state machine.                          *)
(*                                                                         *)
(* Time is counted in whole seconds.  Strings that the code only compares  *)
(* are strings; strings the code takes apart (URLs, paths, bodies, ETags)  *)
(* are records or sequences of their parts.                                *)
(***************************************************************************)
EXTENDS Integers, Sequences, FiniteSets, TLC

VARIABLES
    proc,          \* "boot" | "running" | "dead": the process
    cfgFile,       \* config.yaml: [content, mtime]
    files,         \* certificate and key files: path -> [content, mtime]
    config,        \* var config Config
    certPath,      \* var certPath string
    keyPath,       \* var keyPath string
    cert,          \* var cert *tls.Certificate ("nil" or the pair it points to)
    mux,           \* var configMux sync.RWMutex
    cfgW,          \* the monitorConfig goroutine
    certW,         \* the monitorCertificates goroutine
    now,           \* wall clock, seconds
    cache,         \* var cache map[string]cachedResponse
    rateLimiters,  \* var rateLimiters map[string]*rate.Limiter
    reqs,          \* one handler goroutine per slot
    hs,            \* a TLS handshake on the HTTPS listener
    notes,         \* refreshLogger lines of the reload in progress or last done
    hist           \* observation only: what the claims are stated about

vars == <<proc, cfgFile, files, config, certPath, keyPath, cert, mux, cfgW,
          certW, now, cache, rateLimiters, reqs, hs, notes, hist>>

-----------------------------------------------------------------------------
(* Bounds of the model *)

MaxTime == 3        \* the clock stops here
MaxMTime == 3       \* modification times are 1..MaxMTime
MaxReqs == 3        \* requests started in one behaviour (SpecRoute, SpecCache)
MaxCfgReqs == 2     \* requests started in one behaviour (Spec)
MaxCertReqs == 1    \* requests started in one behaviour (SpecCert)
MaxRateReqs == 32   \* requests started in one behaviour (SpecRate)
MaxOrderReqs == 22   \* requests in SpecOrder
MaxEdits == 2       \* writes to the watched files in one behaviour
MaxFails == 2       \* failed loads of config.yaml counted in a row
MaxStoreReqs == 2   \* requests in SpecStore and SpecTTL
MaxFirstReqs == 3   \* requests in SpecFirst and SpecTunnel
MaxBucketReqs == 3  \* requests in SpecBucket

\* handler goroutines; CfgSlots are the ones that run beside the config
\* watcher in Spec
Slots == {1, 2, 3}
CfgSlots == {1, 2}

-----------------------------------------------------------------------------
(* Program constants *)

rateLimit == 10          \* tokens per second
rateBurst == 20
defaultCacheTTL == 300   \* 5 * time.Minute, in seconds
StatusOK == 200
StatusMovedPermanently == 301
StatusNotModified == 304
StatusNotFound == 404
StatusTooManyRequests == 429
StatusInternalServerError == 500
StatusBadGateway == 502

-----------------------------------------------------------------------------
(* Go maps: a nil map reads as empty and cannot be written *)

EmptyKV == [k \in {} |-> TRUE]
NilMap == [isnil |-> TRUE, kv |-> EmptyKV]
MkMap(f) == [isnil |-> FALSE, kv |-> f]
Has(m, k) == k \in DOMAIN m.kv

Wild == "*"
HostMain == "main.example.com"
HostOther == "other.example.com"

URL(s, h, p) == [scheme |-> s, host |-> h, path |-> p]

\* strings.TrimPrefix(s, "/") and strings.TrimSuffix(s, "/") on paths
TrimPrefixSlash(p) == IF Len(p) > 0 /\ Head(p) = "/" THEN Tail(p) ELSE p
TrimSuffixSlash(p) ==
    IF Len(p) > 0 /\ p[Len(p)] = "/" THEN SubSeq(p, 1, Len(p) - 1) ELSE p

singleJoin(prefix, suffix) ==
    TrimSuffixSlash(prefix) \o <<"/">> \o TrimPrefixSlash(suffix)

-----------------------------------------------------------------------------
(* type Config struct, and the configurations a config.yaml can hold *)

Cfg(lh, ls, cd, cf, kf, r, t, n) ==
    [ListenHTTP |-> lh, ListenHTTPS |-> ls, CertDir |-> cd, CertFile |-> cf,
     KeyFile |-> kf, Routes |-> r, TrustTarget |-> t, NoHTTPSRedirect |-> n]

\* the zero value of Config
ZeroConfig == Cfg("", "", "", "", "", NilMap, NilMap, NilMap)

T3000 == URL("https", "127.0.0.1:3000", <<>>)
T4444 == URL("https", "10.100.111.254:4444", <<>>)
T80 == URL("http", "127.0.0.1:80", <<>>)

generateDefaultConfig ==
    Cfg(":80", ":443", "./certificate", "certificate.pem", "key.pem",
        MkMap(Wild :> T3000 @@ HostMain :> T4444),
        MkMap(Wild :> TRUE @@ HostMain :> TRUE),
        MkMap(Wild :> FALSE @@ HostMain :> FALSE))

\* What yaml.Unmarshal makes of each file content the model writes.  A
\* section the file leaves out stays a nil map.
\*   "D"  the generated default, as saveConfig wrote it
\*   "E"  plain-http targets; main.example.com has a route and no flags
\*   "N"  no '*' key in any section
\*   "Z"  no routes, trust_target or no_https_redirect section
\*   "A"  the default with other certificate and key file names
\*   "S"  the default with one file name, alt.pem, for certificate and key
Snapshot(name) ==
    CASE name = "D" -> generateDefaultConfig
      [] name = "E" -> Cfg(":80", ":443", "./certificate", "certificate.pem", "key.pem",
                           MkMap(Wild :> T80 @@ HostMain :> T3000),
                           MkMap(Wild :> TRUE),
                           MkMap(Wild :> TRUE))
      [] name = "N" -> Cfg(":80", ":443", "./certificate", "certificate.pem", "key.pem",
                           MkMap(HostMain :> T80),
                           MkMap(HostMain :> FALSE),
                           MkMap(HostMain :> TRUE))
      [] name = "Z" -> Cfg(":8080", ":443", "./certificate", "certificate.pem", "key.pem",
                           NilMap, NilMap, NilMap)
      [] name = "A" -> Cfg(":80", ":443", "./certificate", "alt.pem", "altkey.pem",
                           MkMap(Wild :> T3000 @@ HostMain :> T4444),
                           MkMap(Wild :> TRUE @@ HostMain :> TRUE),
                           MkMap(Wild :> FALSE @@ HostMain :> FALSE))
      [] name = "S" -> Cfg(":80", ":443", "./certificate", "alt.pem", "alt.pem",
                           MkMap(Wild :> T3000 @@ HostMain :> T4444),
                           MkMap(Wild :> TRUE @@ HostMain :> TRUE),
                           MkMap(Wild :> FALSE @@ HostMain :> FALSE))

SnapshotNames == {"D", "E", "N", "Z", "A", "S"}

\* loadConfig: os.ReadFile, then yaml.Unmarshal
loadConfig(file) ==
    IF file.content \in SnapshotNames
    THEN [err |-> FALSE, cfg |-> Snapshot(file.content)]
    ELSE [err |-> TRUE, cfg |-> ZeroConfig]

\* updatePaths: filepath.Join(baseDir, CertDir, CertFile / KeyFile)
PathOf(dir, name) == <<dir, name>>
updatePathsCert(c) == PathOf(c.CertDir, c.CertFile)
updatePathsKey(c) == PathOf(c.CertDir, c.KeyFile)

Pairs == {"p1", "p2", "self"}
Paths == {PathOf("./certificate", "certificate.pem"), PathOf("./certificate", "key.pem"),
          PathOf("./certificate", "alt.pem"), PathOf("./certificate", "altkey.pem")}

\* tls.X509KeyPair on what os.ReadFile returned for the two files: the PEM
\* blocks parse and the certificate's public key matches the private key.
\* A content in Pairs stands for a file that holds of that pair what its
\* role needs (the certificate, the key, or both in one file); "selfkey" is
\* a file that holds the generated key and no certificate.
X509KeyPairNoCheck(certContent, keyContent) ==
    [err |-> FALSE, pair |-> certContent]

X509KeyPair(certContent, keyContent) ==
    IF certContent \in Pairs /\ keyContent = certContent
    THEN [err |-> FALSE, pair |-> certContent]
    ELSE [err |-> TRUE, pair |-> "nil"]

-----------------------------------------------------------------------------
(* Requests, responses, and the pure steps of the handler *)

\* An inbound *http.Request.  url is r.URL: scheme and host are empty for an
\* origin-form request line ("GET /x HTTP/1.1") and set for an absolute-form
\* one; host is r.Host; inm is the If-None-Match header ("" when absent);
\* gzip is whether Accept-Encoding contains "gzip"; remote is r.RemoteAddr
\* as <<ip, port>>; tls is r.TLS != nil; hdrHost is r.Header.Get("Host"),
\* which is empty for every HTTP/1 request the server hands to the handler
\* (net/http moves the Host line to r.Host and deletes it from r.Header) and
\* set only when an HTTP/2 client sends a host field; upgrade is
\* r.Header.Get("Upgrade") ("" when absent).
Req(m, t, h, u, q, i, g, ra) ==
    [method |-> m, tls |-> t, host |-> h, url |-> u, query |-> q, inm |-> i,
     gzip |-> g, remote |-> ra, hdrHost |-> "", upgrade |-> "", cookie |-> "",
     auth |-> ""]

\* the same request with a host field left in r.Header
WithHostHeader(req, h) == [req EXCEPT !.hdrHost = h]

\* the same request with "Upgrade: v"
WithUpgrade(req, v) == [req EXCEPT !.upgrade = v]

\* the same request with a Cookie header, with an Authorization header
WithCookie(req, v) == [req EXCEPT !.cookie = v]
WithAuthorization(req, v) == [req EXCEPT !.auth = v]

\* strings.ToLower on the header values that occur
ToLower(s) == IF s \in {"WebSocket", "WEBSOCKET"} THEN "websocket" ELSE s

isWebSocketExact(req) == req.upgrade = "websocket"

\* handler's test for a WebSocket upgrade
isWebSocket(req) == ToLower(req.upgrade) = "websocket"

NoReq == Req("", FALSE, "", URL("", "", <<>>), "", <<>>, FALSE, <<"", "">>)

\* (*url.URL).String(), part by part
URLString(u, q) == <<u.scheme, u.host, u.path, q>>

\* r.RequestURI: the request line's target as the client sent it
RequestURI(req) ==
    IF req.url.scheme = "" THEN <<req.url.path, req.query>>
    ELSE <<req.url.scheme, "://", req.url.host, req.url.path, req.query>>

\* r.RemoteAddr[:strings.LastIndex(r.RemoteAddr, ":")]
ClientIP(req) == req.remote[1]

\* RemoteAddr holds no ':' (it is <<"">> here): LastIndex gives -1 and the
\* slice expression panics
clientIPPanics(req) == Len(req.remote) < 2

\* Response headers the model follows
Hdr(ct, enc, etag, cc) ==
    [ctype |-> ct, enc |-> enc, etag |-> etag, cc |-> cc, setCookie |-> ""]
NoHdr == Hdr(<<"", "">>, "", <<>>, <<>>)

\* What the client is sent.  status 0: nothing was written.
Reply(st, body, hdr, loc) == [status |-> st, body |-> body, hdr |-> hdr, location |-> loc]
NoReply == Reply(0, <<>>, NoHdr, <<>>)

NoTarget == URL("", "", <<>>)

MapGetBool(m, k) == IF Has(m, k) THEN m.kv[k] ELSE FALSE

\* A handler that looks the wildcard up before the host
ResolveRouteWildFirst(c, host) ==
    IF Has(c.Routes, Wild)
    THEN [found |-> TRUE, target |-> c.Routes.kv[Wild],
          skipVerify |-> MapGetBool(c.TrustTarget, Wild),
          noHTTPSRedirect |-> MapGetBool(c.NoHTTPSRedirect, Wild)]
    ELSE IF Has(c.Routes, host)
    THEN [found |-> TRUE, target |-> c.Routes.kv[host],
          skipVerify |-> MapGetBool(c.TrustTarget, host),
          noHTTPSRedirect |-> MapGetBool(c.NoHTTPSRedirect, host)]
    ELSE [found |-> FALSE, target |-> NoTarget, skipVerify |-> FALSE,
          noHTTPSRedirect |-> FALSE]

\* handler, "Retrieve target and settings for the requested host"
ResolveRoute(c, host) ==
    IF Has(c.Routes, host)
    THEN [found |-> TRUE, target |-> c.Routes.kv[host],
          skipVerify |-> MapGetBool(c.TrustTarget, host),
          noHTTPSRedirect |-> MapGetBool(c.NoHTTPSRedirect, host)]
    ELSE IF Has(c.Routes, Wild)
    THEN [found |-> TRUE, target |-> c.Routes.kv[Wild],
          skipVerify |-> MapGetBool(c.TrustTarget, Wild),
          noHTTPSRedirect |-> MapGetBool(c.NoHTTPSRedirect, Wild)]
    ELSE [found |-> FALSE, target |-> NoTarget, skipVerify |-> FALSE,
          noHTTPSRedirect |-> FALSE]

\* target[:5] == "https"
isHTTPS(target) == target.scheme = "https"

\* a target string of fewer than five characters, on which target[:5]
\* panics: of the targets here, those without scheme and host
TShort == URL("", "", <<"x">>)
sliceTargetPanics(target) == target.scheme = "" /\ target.host = ""

\* rate.NewLimiter(rateLimit, rateBurst): the bucket starts full
NewLimiterSwapped == [limit |-> rateBurst, burst |-> rateLimit, tokens |-> rateLimit, last |-> 0]
NewLimiter == [limit |-> rateLimit, burst |-> rateBurst, tokens |-> rateBurst, last |-> 0]

Min(a, b) == IF a < b THEN a ELSE b

\* (*rate.Limiter).Allow() at time t: refill for the time elapsed, capped at
\* the burst, then take one token if there is one
AllowAt(l, t) ==
    LET tk == Min(l.burst, l.tokens + (t - l.last) * l.limit)
    IN IF tk >= 1 THEN [ok |-> TRUE, lim |-> [l EXCEPT !.tokens = tk - 1, !.last = t]]
       ELSE [ok |-> FALSE, lim |-> l]

getLimiterFresh(lims, ip) == NewLimiter

\* getLimiter, under rateMutex.Lock(): the limiter the map holds for the IP,
\* or a new one, which the map holds from then on
getLimiter(lims, ip) == IF ip \in DOMAIN lims THEN lims[ip] ELSE NewLimiter

\* the cache read's condition: ok && time.Since(cached.cachedAt) < cached.cacheDuration
CacheFresh(cch, key, t) ==
    key \in DOMAIN cch /\ t - cch[key].cachedAt < cch[key].cacheDuration

ServeCachedIgnoringETag(cached, req) ==
    Reply(cached.statusCode, cached.body, cached.headers, <<>>)

\* the cache read's two answers
ServeCached(cached, req) ==
    IF req.inm # <<>> /\ req.inm = cached.etag
    THEN Reply(StatusNotModified, <<>>, NoHdr, <<>>)
    ELSE Reply(cached.statusCode, cached.body, cached.headers, <<>>)

\* Tokens in the bucket l at time t
TokensAt(l, t) == Min(l.burst, l.tokens + (t - l.last) * l.limit)

\* The answers handler writes itself before it dispatches
TooManyRequests == Reply(StatusTooManyRequests, <<"Too Many Requests">>, NoHdr, <<>>)
HostNotConfigured == Reply(StatusNotFound, <<"Host not configured">>, NoHdr, <<>>)
Redirect(req) ==
    Reply(StatusMovedPermanently, <<>>, NoHdr, <<"https://", req.host>> \o RequestURI(req))

\* The redirect test: plaintext request, https target, redirect not disabled
NeedsRedirect(req, rt) == ~req.tls /\ isHTTPS(rt.target) /\ ~rt.noHTTPSRedirect

handlerCheckRateLast(req, c, cch, lims, t) ==
    LET ip == ClientIP(req)
        al == AllowAt(getLimiter(lims, ip), t)
        rt == ResolveRoute(c, req.host)
        key == URLString(req.url, req.query)
    IN IF ~rt.found
       THEN [stage |-> "route", route |-> rt, reply |-> HostNotConfigured, lims |-> lims]
       ELSE IF sliceTargetPanics(rt.target)
       THEN [stage |-> "panic", route |-> rt, reply |-> NoReply, lims |-> lims]
       ELSE IF NeedsRedirect(req, rt)
       THEN [stage |-> "redirect", route |-> rt, reply |-> Redirect(req), lims |-> lims]
       ELSE IF CacheFresh(cch, key, t)
       THEN [stage |-> "cache", route |-> rt, reply |-> ServeCached(cch[key], req),
             lims |-> lims]
       ELSE IF ~al.ok
       THEN [stage |-> "rate", route |-> rt, reply |-> TooManyRequests,
             lims |-> (ip :> al.lim) @@ lims]
       ELSE [stage |-> "dispatch", route |-> rt, reply |-> NoReply,
             lims |-> (ip :> al.lim) @@ lims]

\* handler, up to the cache read: the stage that answers the request, or
\* "dispatch" when none does, and the limiters as getLimiter and Allow
\* leave them.  Stage "panic": the slice of a short target panicked, nothing
\* is written and the deferred RUnlock runs.
handlerCheck(req, c, cch, lims, t) ==
    LET ip == ClientIP(req)
        al == AllowAt(getLimiter(lims, ip), t)
        after == (ip :> al.lim) @@ lims
        rt == ResolveRoute(c, req.host)
        key == URLString(req.url, req.query)
    IN IF ~al.ok
       THEN [stage |-> "rate", route |-> ResolveRoute(ZeroConfig, ""),
             reply |-> TooManyRequests, lims |-> after]
       ELSE IF ~rt.found
       THEN [stage |-> "route", route |-> rt, reply |-> HostNotConfigured, lims |-> after]
       ELSE IF sliceTargetPanics(rt.target)
       THEN [stage |-> "panic", route |-> rt, reply |-> NoReply, lims |-> after]
       ELSE IF NeedsRedirect(req, rt)
       THEN [stage |-> "redirect", route |-> rt, reply |-> Redirect(req), lims |-> after]
       ELSE IF CacheFresh(cch, key, t)
       THEN [stage |-> "cache", route |-> rt, reply |-> ServeCached(cch[key], req),
             lims |-> after]
       ELSE [stage |-> "dispatch", route |-> rt, reply |-> NoReply, lims |-> after]

-----------------------------------------------------------------------------
(* getReverseProxy: Director and ModifyResponse *)

\* What the backend exchange gives: err is "none", "fail" (dial, TLS,
\* timeout, protocol error before a response header came), "body" (the
\* header came and reading the body fails) or "canceled" (the error
\* "context canceled": the client went away)
BResp(err, st, hdr, body) == [err |-> err, status |-> st, hdr |-> hdr, body |-> body]

\* One directive of a Cache-Control header, as strings.Split(header, ",")
\* yields it: sp is a space before the name, numeric is whether strconv.Atoi
\* accepts the value
Directive(sp, name, val, numeric) ==
    [sp |-> sp, name |-> name, val |-> val, numeric |-> numeric]

\* a route target url.Parse rejects: "https://%zz" (invalid URL escape)
TBad == URL("https", "%zz", <<>>)

\* url.Parse(target) returns an error
urlParseErr(target) == target.host = "%zz"

\* Director: the outbound request's Host
DirectorHost(target, req) ==
    IF req.hdrHost # "" THEN req.hdrHost ELSE target.host

\* Director: the outbound request's URL
Director(target, req) ==
    [scheme |-> target.scheme, host |-> target.host,
     path |-> IF target.path # <<>>
              THEN singleJoin(target.path, TrimPrefixSlash(req.url.path))
              ELSE req.url.path]

RECURSIVE parseCacheControl(_)
\* parseCacheControl, on the header's directives in order; seconds
parseCacheControl(parts) ==
    IF parts = <<>> THEN 0
    ELSE LET part == Head(parts)
         IN IF ~part.sp /\ part.name = "max-age" /\ part.numeric
            THEN part.val
            ELSE parseCacheControl(Tail(parts))

\* strings.HasPrefix(contentType, p), a content type being <<prefix, rest>>
CacheableTypes == {"text/", "image/", "application/javascript", "application/json"}

shouldCacheAnyMethod(method, resp) ==
    /\ resp.status = StatusOK
    /\ resp.hdr.ctype[1] \in CacheableTypes

\* shouldCache, on resp.Request.Method and the response
shouldCache(method, resp) ==
    /\ method = "GET"
    /\ resp.status = StatusOK
    /\ resp.hdr.ctype[1] \in CacheableTypes

\* fmt.Sprintf(`"%x"`, md5.Sum(body))
generateETag(body) == <<"md5">> \o body

\* gzip.NewWriter(&buf).Write(body)
Gzip(body) == <<"gzip">> \o body

\* A compression step that does not ask what the client accepts
compressStepAlways(req, resp) ==
    IF resp.hdr.enc = ""
    THEN [resp EXCEPT !.body = Gzip(resp.body), !.hdr.enc = "gzip"]
    ELSE resp

\* ModifyResponse's compression step
compressStep(req, resp) ==
    IF resp.hdr.enc = "" /\ req.gzip
    THEN [resp EXCEPT !.body = Gzip(resp.body), !.hdr.enc = "gzip"]
    ELSE resp

\* ModifyResponse's cache step: the entry it stores
cacheEntry(resp, t) ==
    LET etag == IF resp.hdr.etag = <<>> THEN generateETag(resp.body) ELSE resp.hdr.etag
        age == parseCacheControl(resp.hdr.cc)
    IN [body |-> resp.body, headers |-> resp.hdr, statusCode |-> resp.status,
        cachedAt |-> t,
        cacheDuration |-> IF age = 0 THEN defaultCacheTTL ELSE age,
        etag |-> etag]

\* the key ModifyResponse stores under: resp.Request.URL.String(), the
\* outbound request's URL
cacheWriteKey(target, req) == URLString(Director(target, req), req.query)

\* A transport that trusts any backend certificate
TransportInsecure(skipVerify) == [InsecureSkipVerify |-> TRUE]

\* getReverseProxy's transport: transportPool, or a verifying one
Transport(skipVerify) == [InsecureSkipVerify |-> skipVerify]

\* transport.RoundTrip: the TLS handshake with an https backend whose
\* certificate does not verify (certOK false) fails unless the transport
\* skips verification; otherwise the exchange gives bresp
RoundTrip(target, tr, bresp, certOK) ==
    IF target.scheme = "https" /\ ~tr.InsecureSkipVerify /\ ~certOK
    THEN BResp("fail", 0, NoHdr, <<>>)
    ELSE bresp

InvalidTargetBadRequest ==
    Reply(400, <<"Invalid target configuration">>, NoHdr, <<>>)
InvalidTarget ==
    Reply(StatusInternalServerError, <<"Invalid target configuration">>, NoHdr, <<>>)
InternalServerError ==
    Reply(StatusInternalServerError, <<"Internal Server Error">>, NoHdr, <<>>)

\* ErrorHandler: nothing is written for the error "context canceled"
ErrorHandler(err) ==
    IF err = "canceled" THEN NoReply
    ELSE Reply(StatusBadGateway, <<"Proxy error">>, NoHdr, <<>>)

\* ModifyResponse reads the body: to compress it, or to cache it
readsBody(req, resp) ==
    \/ resp.hdr.enc = "" /\ req.gzip
    \/ shouldCache(req.method, resp)

\* An ErrorHandler that answers 502 whatever the error
serveHTTPNoCancelCheck(target, req, bresp, cch, t) ==
    IF bresp.err # "none"
    THEN [reply |-> Reply(StatusBadGateway, <<"Proxy error">>, NoHdr, <<>>),
          cache |-> cch, stored |-> FALSE, aborted |-> FALSE]
    ELSE [reply |-> Reply(bresp.status, bresp.body, bresp.hdr, <<>>), cache |-> cch,
          stored |-> FALSE, aborted |-> FALSE]

\* proxy.ServeHTTP for an exchange that gave bresp: what the client is sent,
\* the cache afterwards, whether an entry was stored, and whether the
\* response was cut short (ReverseProxy aborts the handler when copying the
\* body fails after the header has been sent)
serveHTTP(target, req, bresp, cch, t) ==
    IF bresp.err \in {"fail", "canceled"}
    THEN [reply |-> ErrorHandler(bresp.err), cache |-> cch, stored |-> FALSE,
          aborted |-> FALSE]
    ELSE IF bresp.err = "body"
    THEN IF readsBody(req, bresp)
         THEN [reply |-> ErrorHandler(bresp.err), cache |-> cch, stored |-> FALSE,
               aborted |-> FALSE]
         ELSE [reply |-> Reply(bresp.status, <<>>, bresp.hdr, <<>>), cache |-> cch,
               stored |-> FALSE, aborted |-> TRUE]
    ELSE LET z == compressStep(req, bresp)
             e == cacheEntry(z, t)
         IN IF shouldCache(req.method, z)
            THEN [reply |-> Reply(z.status, z.body, [z.hdr EXCEPT !.etag = e.etag], <<>>),
                  cache |-> (cacheWriteKey(target, req) :> e) @@ cch,
                  stored |-> TRUE, aborted |-> FALSE]
            ELSE [reply |-> Reply(z.status, z.body, z.hdr, <<>>), cache |-> cch,
                  stored |-> FALSE, aborted |-> FALSE]

-----------------------------------------------------------------------------
(* configMux: sync.RWMutex.  writer is the goroutine that has called Lock   *)
(* ("none" when there is none); it holds the lock once the readers that    *)
(* were in have left, and RLock waits while a writer holds or waits.       *)

NoMux == [readers |-> {}, writer |-> "none"]

\* RLock returns
RLockOK(m) == m.writer = "none"

LockOKNoWait(m, w) == m.writer = w

\* Lock returns to the writer that called it
LockOK(m, w) == m.writer = w /\ m.readers = {}

-----------------------------------------------------------------------------
(* The handler goroutines *)

NoRoute == ResolveRoute(ZeroConfig, "")
NoEntry == [body |-> <<>>, headers |-> NoHdr, statusCode |-> 0, cachedAt |-> 0,
            cacheDuration |-> 0, etag |-> <<>>]

\* Observation only: pre is the configuration as the last completed reload
\* left it and post the one the reload in progress (if any) installs, both
\* taken when the handler read its route; took whether the request left the
\* client's bucket with a token less; hadEntry whether the cache held an
\* unexpired entry under the request's key then, and entry that entry;
\* repeat whether a response to this same request had been stored
\* less than its time to live before; outHost the Host sent to the backend,
\* verify whether the transport used verifies the backend's certificate,
\* certOK whether the certificate the backend presented verifies,
\* got what the exchange with the backend gave, stored whether the response
\* was put in the cache, aborted whether it was cut short and cacheWas the
\* cache before the exchange; hijack how taking over the
\* client connection went ("" when it was not tried)
NoBResp == BResp("", 0, NoHdr, <<>>)
EmptyCache == [k \in {} |-> 0]

IdleSlot ==
    [pc |-> "idle", req |-> NoReq, route |-> NoRoute, reply |-> NoReply,
     stage |-> "", took |-> FALSE, backend |-> FALSE, outURL |-> NoTarget,
     outHost |-> "", verify |-> FALSE, certOK |-> TRUE, got |-> NoBResp,
     stored |-> FALSE, aborted |-> FALSE, cacheWas |-> EmptyCache, hijack |-> "",
     dial |-> "",
     pre |-> ZeroConfig, post |-> ZeroConfig,
     hadEntry |-> FALSE, entry |-> NoEntry, repeat |-> FALSE]

NoFetch == [valid |-> FALSE, req |-> NoReq, at |-> 0, ttl |-> 0, body |-> <<>>]

SameRequest(a, b) ==
    /\ a.method = b.method /\ a.tls = b.tls /\ a.host = b.host
    /\ a.url = b.url /\ a.query = b.query
    /\ a.inm = b.inm /\ a.gzip = b.gzip

\* handler is entered: configMux.RLock()
HandlerBegin(r, req, limit) ==
    /\ proc = "running"
    /\ reqs[r].pc \in {"idle", "done"}
    /\ hist.nreq < limit
    /\ RLockOK(mux)
    /\ reqs' = [reqs EXCEPT ![r] = [IdleSlot EXCEPT !.pc = "locked", !.req = req]]
    /\ mux' = [mux EXCEPT !.readers = @ \cup {r}]
    /\ hist' = [hist EXCEPT !.nreq = @ + 1]
    /\ UNCHANGED <<proc, cfgFile, files, config, certPath, keyPath, cert, cfgW,
                   certW, now, cache, rateLimiters, hs, notes>>

\* handler's first statement after the lock panics on a RemoteAddr without
\* ':': the deferred configMux.RUnlock() runs, net/http recovers and closes
\* the connection, and nothing is written
HandlerPanic(r) ==
    /\ proc = "running"
    /\ reqs[r].pc = "locked"
    /\ clientIPPanics(reqs[r].req)
    /\ reqs' = [reqs EXCEPT ![r] = [@ EXCEPT !.pc = "done", !.stage = "panic"]]
    /\ mux' = [mux EXCEPT !.readers = @ \ {r}]
    /\ UNCHANGED <<proc, cfgFile, files, config, certPath, keyPath, cert, cfgW,
                   certW, now, cache, rateLimiters, hs, notes, hist>>

\* handler from the rate check to the cache read; an answered request
\* returns, which runs the deferred configMux.RUnlock()
HandlerCheck(r) ==
    /\ proc = "running"
    /\ reqs[r].pc = "locked"
    /\ ~clientIPPanics(reqs[r].req)
    /\ LET req == reqs[r].req
           ip == ClientIP(req)
           res == handlerCheck(req, config, cache, rateLimiters, now)
           took == TokensAt(getLimiter(res.lims, ip), now)
                     < TokensAt(getLimiter(rateLimiters, ip), now)
           key == URLString(req.url, req.query)
           answered == res.stage # "dispatch"
       IN /\ rateLimiters' = res.lims
          /\ reqs' = [reqs EXCEPT ![r] =
                [@ EXCEPT !.pc = IF answered THEN "done" ELSE "dispatch",
                          !.route = res.route, !.reply = res.reply,
                          !.stage = res.stage, !.took = took,
                          !.pre = hist.stable,
                          !.post = IF cfgW.pc \in {"poll", "lock"}
                                   THEN hist.stable ELSE cfgW.new,
                          !.hadEntry = CacheFresh(cache, key, now),
                          !.entry = IF CacheFresh(cache, key, now)
                                    THEN cache[key] ELSE NoEntry,
                          !.repeat = /\ hist.lastFetch.valid
                                     /\ SameRequest(hist.lastFetch.req, req)
                                     /\ now - hist.lastFetch.at < hist.lastFetch.ttl]]
          /\ mux' = IF answered THEN [mux EXCEPT !.readers = @ \ {r}] ELSE mux
          /\ hist' = [hist EXCEPT !.burst[ip] =
                LET b == IF @.allowed + @.rejected > 0 /\ @.at # now
                         THEN [at |-> now, prevAt |-> @.at,
                               allowed |-> 0, rejected |-> 0]
                         ELSE [@ EXCEPT !.at = now]
                IN IF res.stage # "rate" THEN [b EXCEPT !.allowed = @ + 1]
                   ELSE [b EXCEPT !.rejected = @ + 1]]
    /\ UNCHANGED <<proc, cfgFile, files, config, certPath, keyPath, cert, cfgW,
                   certW, now, cache, hs, notes>>

\* handler from getReverseProxy on, for a request that is no WebSocket
\* upgrade or whose target does not parse: the exchange with the backend,
\* whose certificate verifies or not (certOK), gives bresp
HandlerDispatch(r, bresp, certOK) ==
    /\ proc = "running"
    /\ reqs[r].pc = "dispatch"
    /\ urlParseErr(reqs[r].route.target) \/ ~isWebSocket(reqs[r].req)
    /\ LET req == reqs[r].req
           target == reqs[r].route.target
           tr == Transport(reqs[r].route.skipVerify)
           got == RoundTrip(target, tr, bresp, certOK)
           sv == serveHTTP(target, req, got, cache, now)
       IN IF urlParseErr(target)
          THEN /\ reqs' = [reqs EXCEPT ![r] =
                      [@ EXCEPT !.pc = "done", !.reply = InvalidTarget]]
               /\ UNCHANGED <<cache, hist>>
          ELSE /\ cache' = sv.cache
               /\ reqs' = [reqs EXCEPT ![r] =
                      [@ EXCEPT !.pc = "done", !.reply = sv.reply, !.backend = TRUE,
                                !.outURL = Director(target, req),
                                !.outHost = DirectorHost(target, req),
                                !.verify = ~tr.InsecureSkipVerify,
                                !.certOK = certOK,
                                !.got = got, !.stored = sv.stored,
                                !.aborted = sv.aborted, !.cacheWas = cache]]
               /\ hist' = [hist EXCEPT
                      !.calls = @ + 1,
                      !.lastFetch = IF sv.stored
                                    THEN [valid |-> TRUE, req |-> req, at |-> now,
                                          ttl |-> cacheEntry(compressStep(req, got), now).cacheDuration,
                                          body |-> sv.reply.body]
                                    ELSE @]
    /\ mux' = [mux EXCEPT !.readers = @ \ {r}]
    /\ UNCHANGED <<proc, cfgFile, files, config, certPath, keyPath, cert, cfgW,
                   certW, now, rateLimiters, hs, notes>>

\* the transport the WebSocket branch dials with: transportPool, or a
\* verifying one built on the spot; Dial is the func field of that name,
\* which neither sets
WebSocketDialer(skipVerify) ==
    [InsecureSkipVerify |-> skipVerify, Dial |-> "nil"]

\* dialer.Dial("tcp", targetURL.Host): the call of a nil func panics; a func
\* that is set gives a plain TCP connection
Dial(dialer, target) ==
    IF dialer.Dial = "nil" THEN "panic" ELSE "tcp"

\* handler's WebSocket branch for a target that parses.  hj is how taking
\* over the client connection goes: "unsupported" (the ResponseWriter is no
\* http.Hijacker), "error" (Hijack fails) or "ok".  After a Hijack that succeeded, dialer.Dial is called:
\* Dial is a field of http.Transport that neither transportPool nor the
\* verifying transport sets, so the call panics; the deferred
\* clientConn.Close() and configMux.RUnlock() run and net/http recovers.
HandlerWebSocket(r, hj) ==
    /\ proc = "running"
    /\ reqs[r].pc = "dispatch"
    /\ ~urlParseErr(reqs[r].route.target) /\ isWebSocket(reqs[r].req)
    /\ reqs' = [reqs EXCEPT ![r] =
          [@ EXCEPT !.pc = "done", !.hijack = hj,
                    !.dial = IF hj = "ok"
                             THEN Dial(WebSocketDialer(reqs[r].route.skipVerify),
                                       reqs[r].route.target)
                             ELSE "",
                    !.reply = IF hj = "ok" THEN NoReply ELSE InternalServerError]]
    /\ mux' = [mux EXCEPT !.readers = @ \ {r}]
    /\ UNCHANGED <<proc, cfgFile, files, config, certPath, keyPath, cert, cfgW,
                   certW, now, cache, rateLimiters, hs, notes, hist>>

\* a second passes
Tick ==
    /\ now < MaxTime
    /\ now' = now + 1
    /\ UNCHANGED <<proc, cfgFile, files, config, certPath, keyPath, cert, mux,
                   cfgW, certW, cache, rateLimiters, reqs, hs, notes, hist>>

-----------------------------------------------------------------------------
(* A running system, as main leaves it *)

\* Permission bits of a file, as the set of the bits that are set
Perm0600 == {"ur", "uw"}
Perm0644 == {"ur", "uw", "gr", "or"}
Perm0666 == {"ur", "uw", "gr", "gw", "or", "ow"}

\* the process's file mode creation mask, 022
Umask == {"gw", "ow"}

FileMode(content, mtime, mode) ==
    [content |-> content, mtime |-> mtime, mode |-> mode]

\* a file as an editor left it, and a path without a file
File(content, mtime) ==
    FileMode(content, mtime, IF content = "missing" THEN {} ELSE Perm0644)

\* os.OpenFile(name, O_WRONLY|O_CREATE|O_TRUNC, perm) and the write of
\* content: perm, less the umask, is the mode of a file that is created; a
\* file that exists is truncated and keeps its mode
OpenFile(f, perm, content) ==
    FileMode(content, 1, IF f.content = "missing" THEN perm \ Umask ELSE f.mode)

NoLimiters == [k \in {} |-> 0]

\* monitorConfig: last is lastModTime, stat configInfo's modification
\* time, new is newConfig; fails, observation only, counts the ticks since
\* the last load that succeeded whose loadConfig returned an error
cfgW0 == [pc |-> "poll", last |-> 0, stat |-> 0, new |-> ZeroConfig, fails |-> 0]
\* monitorCertificates: last is lastModTime, stat and keyStat the
\* modification times of certInfo and keyInfo, pair what tls.X509KeyPair
\* returned; okCert and okKey, observation only, are the two modification
\* times the latest tick whose load succeeded saw
certW0 == [pc |-> "poll", last |-> 0, stat |-> 0, keyStat |-> 0, pair |-> "nil",
           okCert |-> 0, okKey |-> 0]
hs0 == [pc |-> "idle", cert |-> "nil"]

\* Observation only, per client address: the instant of its latest request,
\* the instant of the latest one before that instant (-1: none), and how many
\* requests of the latest instant passed and failed the rate check
IPs == {"10.0.0.1", "10.0.0.2"}
NoBurst == [at |-> 0, prevAt |-> 0 - 1, allowed |-> 0, rejected |-> 0]

hist0(c) ==
    [nreq |-> 0, calls |-> 0, edits |-> 0, lastFetch |-> NoFetch, stable |-> c,
     wildLoaded |-> Has(c.Routes, Wild),
     burst |-> [ip \in IPs |-> NoBurst],
     before |-> [config |-> c, ident |-> FALSE]]

\* The process runs with configuration c loaded from a file holding
\* content, and the pair p1 loaded from the certificate files
Running(content, c) ==
    /\ proc = "running"
    /\ cfgFile = File(content, 1)
    /\ files = [p \in Paths |->
                  IF p \in {updatePathsCert(c), updatePathsKey(c)}
                  THEN File("p1", 1) ELSE File("missing", 0)]
    /\ config = c
    /\ certPath = updatePathsCert(c)
    /\ keyPath = updatePathsKey(c)
    /\ cert = "p1"
    /\ mux = NoMux
    /\ cfgW = cfgW0
    /\ certW = certW0
    /\ now = 0
    /\ cache = EmptyCache
    /\ rateLimiters = NoLimiters
    /\ reqs = [r \in Slots |-> IdleSlot]
    /\ hs = hs0
    /\ notes = {}
    /\ hist = hist0(c)

-----------------------------------------------------------------------------
(* main, up to the start of the two watchers and the listeners *)

\* generateSelfSignedCert: the certificate is written to certPath
\* (os.Create, which is OpenFile with 0666), then the key to keyPath
\* (O_CREATE|O_TRUNC, 0600): under one name for both, the key replaces the
\* certificate just written
generateSelfSignedCert(fs, cp, kp) ==
    LET certOut == [fs EXCEPT ![cp] = OpenFile(fs[cp], Perm0666, "self")]
    IN [certOut EXCEPT ![kp] =
           OpenFile(certOut[kp], Perm0600, IF kp = cp THEN "selfkey" ELSE "self")]

\* main's os.Stat of both paths and the call of generateSelfSignedCert
ensure(fs, cp, kp) ==
    IF fs[cp].content = "missing" \/ fs[kp].content = "missing"
    THEN generateSelfSignedCert(fs, cp, kp) ELSE fs

Main ==
    /\ proc = "boot"
    /\ LET absent == cfgFile.content = "missing"
           lc == loadConfig(cfgFile)
           c == IF absent THEN generateDefaultConfig ELSE lc.cfg
           cp == updatePathsCert(c)
           kp == updatePathsKey(c)
           fs == ensure(files, cp, kp)
           kpair == X509KeyPair(fs[cp].content, fs[kp].content)
       IN IF ~absent /\ lc.err
          THEN \* errorLogger.Fatalf("Failed to load config")
               /\ proc' = "dead"
               /\ UNCHANGED <<cfgFile, files, config, certPath, keyPath, cert, hist>>
          ELSE /\ cfgFile' = IF absent THEN File("D", 1) ELSE cfgFile
               /\ config' = c
               /\ certPath' = cp
               /\ keyPath' = kp
               /\ files' = fs
               /\ IF kpair.err
                  THEN \* errorLogger.Fatalf("Failed to load certificate")
                       proc' = "dead" /\ UNCHANGED cert
                  ELSE proc' = "running" /\ cert' = kpair.pair
               /\ hist' = [hist EXCEPT !.stable = c,
                                       !.wildLoaded = Has(c.Routes, Wild)]
    /\ UNCHANGED <<mux, cfgW, certW, now, cache, rateLimiters, reqs, hs, notes>>

\* The state main starts from: the files as the operator left them
\* fc gives each path's content and mode the mode of the files that exist
BootFiles(content, fc, mode) ==
    /\ proc = "boot"
    /\ cfgFile = File(content, IF content = "missing" THEN 0 ELSE 1)
    /\ files = [p \in Paths |->
                  IF fc[p] = "missing" THEN File("missing", 0)
                  ELSE FileMode(fc[p], 1, mode)]
    /\ config = ZeroConfig
    /\ certPath = PathOf("", "")
    /\ keyPath = PathOf("", "")
    /\ cert = "nil"
    /\ mux = NoMux
    /\ cfgW = cfgW0
    /\ certW = certW0
    /\ now = 0
    /\ cache = EmptyCache
    /\ rateLimiters = NoLimiters
    /\ reqs = [r \in Slots |-> IdleSlot]
    /\ hs = hs0
    /\ notes = {}
    /\ hist = hist0(ZeroConfig)

\* the same with one content, pair, in certificate.pem and key.pem and
\* another, altPair, in the files of the other names
Boot(content, pair, altPair) ==
    BootFiles(content, [p \in Paths |->
                          IF p[2] \in {"certificate.pem", "key.pem"}
                          THEN pair ELSE altPair], Perm0644)

-----------------------------------------------------------------------------
(* The operator: writes to the watched files *)

EditConfig(content) ==
    /\ proc = "running"
    /\ hist.edits < MaxEdits
    /\ cfgFile.mtime < MaxMTime
    /\ cfgFile' = File(content, cfgFile.mtime + 1)
    /\ hist' = [hist EXCEPT !.edits = @ + 1]
    /\ UNCHANGED <<proc, files, config, certPath, keyPath, cert, mux, cfgW,
                   certW, now, cache, rateLimiters, reqs, hs, notes>>

WriteFile(p, content) ==
    /\ proc = "running"
    /\ hist.edits < MaxEdits
    /\ files[p].mtime < MaxMTime
    /\ files' = [files EXCEPT ![p] =
                    FileMode(content, files[p].mtime + 1, files[p].mode)]
    /\ hist' = [hist EXCEPT !.edits = @ + 1]
    /\ UNCHANGED <<proc, cfgFile, config, certPath, keyPath, cert, mux, cfgW,
                   certW, now, cache, rateLimiters, reqs, hs, notes>>

-----------------------------------------------------------------------------
(* monitorConfig: one reload of config.yaml, step by step *)

Note(verb, what, key) == <<verb, what, key>>

mergeMapNoCompare(live, new, what) ==
    [panic |-> live.isnil /\ DOMAIN new.kv # {},
     map |-> [isnil |-> live.isnil, kv |-> new.kv],
     notes |-> {Note("Updated", what, k) : k \in DOMAIN new.kv}
               \cup {Note("Removed", what, k) : k \in DOMAIN live.kv \ DOMAIN new.kv}]

\* The two loops over one map: set what differs, then delete what is gone.
\* Assigning into a nil map panics.
mergeMap(live, new, what) ==
    LET updated == {k \in DOMAIN new.kv :
                       k \notin DOMAIN live.kv \/ live.kv[k] # new.kv[k]}
        afterSet == [k \in DOMAIN live.kv \cup updated |->
                       IF k \in updated THEN new.kv[k] ELSE live.kv[k]]
        removed == {k \in DOMAIN afterSet : k \notin DOMAIN new.kv}
    IN [panic |-> live.isnil /\ updated # {},
        map |-> [isnil |-> live.isnil,
                 kv |-> [k \in DOMAIN afterSet \ removed |-> afterSet[k]]],
        notes |-> {Note("Updated", what, k) : k \in updated}
                  \cup {Note("Removed", what, k) : k \in removed}]

\* Two configurations say the same: a section that is absent and an empty
\* one are not told apart
SameContent(a, b) ==
    /\ a.ListenHTTP = b.ListenHTTP /\ a.ListenHTTPS = b.ListenHTTPS
    /\ a.CertDir = b.CertDir /\ a.CertFile = b.CertFile /\ a.KeyFile = b.KeyFile
    /\ a.Routes.kv = b.Routes.kv
    /\ a.TrustTarget.kv = b.TrustTarget.kv
    /\ a.NoHTTPSRedirect.kv = b.NoHTTPSRedirect.kv

\* os.Stat and loadConfig succeed and the modification time differs from the
\* one of the last reload; every other outcome is logged and polled again
CfgPoll ==
    /\ proc = "running"
    /\ cfgW.pc = "poll"
    /\ cfgFile.content # "missing"
    /\ cfgFile.mtime # cfgW.last
    /\ ~loadConfig(cfgFile).err
    /\ cfgW' = [cfgW EXCEPT !.pc = "lock", !.stat = cfgFile.mtime,
                            !.new = loadConfig(cfgFile).cfg, !.fails = 0]
    /\ notes' = {}
    /\ hist' = [hist EXCEPT
          !.wildLoaded = @ /\ Has(loadConfig(cfgFile).cfg.Routes, Wild),
          !.before = [config |-> config,
                      ident |-> SameContent(loadConfig(cfgFile).cfg, config)]]
    /\ UNCHANGED <<proc, cfgFile, files, config, certPath, keyPath, cert, mux,
                   certW, now, cache, rateLimiters, reqs, hs>>

CfgPollFailAdvance ==
    /\ proc = "running"
    /\ cfgW.pc = "poll"
    /\ cfgFile.content # "missing"
    /\ cfgFile.mtime # cfgW.last
    /\ loadConfig(cfgFile).err
    /\ cfgW.fails < MaxFails
    /\ cfgW' = [cfgW EXCEPT !.fails = @ + 1, !.last = cfgFile.mtime]
    /\ UNCHANGED <<proc, cfgFile, files, config, certPath, keyPath, cert, mux,
                   certW, now, cache, rateLimiters, reqs, hs, notes, hist>>

\* a tick on which os.Stat succeeds, the modification time differs and
\* loadConfig returns an error: the error is logged, lastModTime stays
CfgPollFail ==
    /\ proc = "running"
    /\ cfgW.pc = "poll"
    /\ cfgFile.content # "missing"
    /\ cfgFile.mtime # cfgW.last
    /\ loadConfig(cfgFile).err
    /\ cfgW.fails < MaxFails
    /\ cfgW' = [cfgW EXCEPT !.fails = @ + 1]
    /\ UNCHANGED <<proc, cfgFile, files, config, certPath, keyPath, cert, mux,
                   certW, now, cache, rateLimiters, reqs, hs, notes, hist>>

\* configMux.Lock() is called: from now on no new reader gets in
CfgLock ==
    /\ proc = "running"
    /\ cfgW.pc = "lock"
    /\ mux.writer = "none"
    /\ mux' = [mux EXCEPT !.writer = "cfg"]
    /\ cfgW' = [cfgW EXCEPT !.pc = "fields"]
    /\ UNCHANGED <<proc, cfgFile, files, config, certPath, keyPath, cert,
                   certW, now, cache, rateLimiters, reqs, hs, notes, hist>>

\* Lock() returns once the readers are gone; the scalar fields are compared
\* and set.  With changed certificate names loadCertificate runs: when the
\* pair parses it calls configMux.Lock() again, under the lock this
\* goroutine holds, and never returns.
CfgFields ==
    /\ proc = "running"
    /\ cfgW.pc = "fields"
    /\ LockOK(mux, "cfg")
    /\ LET new == cfgW.new
           names == \/ new.CertDir # config.CertDir
                    \/ new.CertFile # config.CertFile
                    \/ new.KeyFile # config.KeyFile
           c1 == [config EXCEPT !.ListenHTTP = new.ListenHTTP,
                                !.ListenHTTPS = new.ListenHTTPS,
                                !.CertDir = new.CertDir,
                                !.CertFile = new.CertFile,
                                !.KeyFile = new.KeyFile]
           cp == updatePathsCert(c1)
           kp == updatePathsKey(c1)
           kpair == X509KeyPair(files[cp].content, files[kp].content)
       IN /\ config' = c1
          /\ certPath' = IF names THEN cp ELSE certPath
          /\ keyPath' = IF names THEN kp ELSE keyPath
          /\ cfgW' = [cfgW EXCEPT !.pc = IF names /\ ~kpair.err
                                         THEN "stuck" ELSE "routes"]
          /\ notes' = notes
                \cup (IF new.ListenHTTP # config.ListenHTTP
                      THEN {Note("Updated", "listen_http", "")} ELSE {})
                \cup (IF new.ListenHTTPS # config.ListenHTTPS
                      THEN {Note("Updated", "listen_https", "")} ELSE {})
                \cup (IF names /\ kpair.err
                      THEN {Note("Error", "certificate", "")} ELSE {})
    /\ UNCHANGED <<proc, cfgFile, files, cert, mux, certW, now, cache,
                   rateLimiters, reqs, hs, hist>>

CfgRoutes ==
    /\ proc = "running"
    /\ cfgW.pc = "routes"
    /\ LET m == mergeMap(config.Routes, cfgW.new.Routes, "route")
       IN IF m.panic
          THEN proc' = "dead" /\ UNCHANGED <<config, cfgW, notes>>
          ELSE /\ config' = [config EXCEPT !.Routes = m.map]
               /\ cfgW' = [cfgW EXCEPT !.pc = "trust"]
               /\ notes' = notes \cup m.notes
               /\ UNCHANGED proc
    /\ UNCHANGED <<cfgFile, files, certPath, keyPath, cert, mux, certW, now,
                   cache, rateLimiters, reqs, hs, hist>>

CfgTrust ==
    /\ proc = "running"
    /\ cfgW.pc = "trust"
    /\ LET m == mergeMap(config.TrustTarget, cfgW.new.TrustTarget, "trust_target")
       IN IF m.panic
          THEN proc' = "dead" /\ UNCHANGED <<config, cfgW, notes>>
          ELSE /\ config' = [config EXCEPT !.TrustTarget = m.map]
               /\ cfgW' = [cfgW EXCEPT !.pc = "nored"]
               /\ notes' = notes \cup m.notes
               /\ UNCHANGED proc
    /\ UNCHANGED <<cfgFile, files, certPath, keyPath, cert, mux, certW, now,
                   cache, rateLimiters, reqs, hs, hist>>

\* the last map, configMux.Unlock() and lastModTime
CfgNoRedirect ==
    /\ proc = "running"
    /\ cfgW.pc = "nored"
    /\ LET m == mergeMap(config.NoHTTPSRedirect, cfgW.new.NoHTTPSRedirect,
                         "no_https_redirect")
       IN IF m.panic
          THEN proc' = "dead" /\ UNCHANGED <<config, cfgW, notes, mux, hist>>
          ELSE /\ config' = [config EXCEPT !.NoHTTPSRedirect = m.map]
               /\ cfgW' = [cfgW EXCEPT !.pc = "poll", !.last = cfgW.stat]
               /\ notes' = notes \cup m.notes
               /\ mux' = [mux EXCEPT !.writer = "none"]
               /\ hist' = [hist EXCEPT !.stable = config']
               /\ UNCHANGED proc
    /\ UNCHANGED <<cfgFile, files, certPath, keyPath, cert, certW, now,
                   cache, rateLimiters, reqs, hs>>

monitorConfig == CfgPoll \/ CfgLock \/ CfgFields \/ CfgRoutes \/ CfgTrust \/ CfgNoRedirect

-----------------------------------------------------------------------------
(* monitorCertificates and loadCertificate *)

\* Both files are there and one modification time differs from lastModTime
CertPoll ==
    /\ proc = "running"
    /\ certW.pc = "poll"
    /\ files[certPath].content # "missing"
    /\ files[keyPath].content # "missing"
    /\ \/ files[certPath].mtime # certW.last
       \/ files[keyPath].mtime # certW.last
    /\ certW' = [certW EXCEPT !.pc = "read", !.stat = files[certPath].mtime,
                               !.keyStat = files[keyPath].mtime]
    /\ UNCHANGED <<proc, cfgFile, files, config, certPath, keyPath, cert, mux,
                   cfgW, now, cache, rateLimiters, reqs, hs, notes, hist>>

\* loadCertificate up to tls.X509KeyPair; an error is logged and the watcher
\* polls again
CertRead ==
    /\ proc = "running"
    /\ certW.pc = "read"
    /\ LET kpair == X509KeyPair(files[certPath].content, files[keyPath].content)
       IN certW' = IF kpair.err THEN [certW EXCEPT !.pc = "poll"]
                  ELSE [certW EXCEPT !.pc = "lock", !.pair = kpair.pair]
    /\ UNCHANGED <<proc, cfgFile, files, config, certPath, keyPath, cert, mux,
                   cfgW, now, cache, rateLimiters, reqs, hs, notes, hist>>

\* configMux.Lock() is called
CertLock ==
    /\ proc = "running"
    /\ certW.pc = "lock"
    /\ mux.writer = "none"
    /\ mux' = [mux EXCEPT !.writer = "cert"]
    /\ certW' = [certW EXCEPT !.pc = "install"]
    /\ UNCHANGED <<proc, cfgFile, files, config, certPath, keyPath, cert,
                   cfgW, now, cache, rateLimiters, reqs, hs, notes, hist>>

\* cert = &newCert, configMux.Unlock(), lastModTime = certInfo.ModTime()
CertInstall ==
    /\ proc = "running"
    /\ certW.pc = "install"
    /\ LockOK(mux, "cert")
    /\ cert' = certW.pair
    /\ mux' = [mux EXCEPT !.writer = "none"]
    /\ certW' = [certW EXCEPT !.pc = "poll", !.last = certW.stat,
                               !.okCert = certW.stat, !.okKey = certW.keyStat]
    /\ UNCHANGED <<proc, cfgFile, files, config, certPath, keyPath, cfgW, now,
                   cache, rateLimiters, reqs, hs, notes, hist>>

monitorCertificates == CertPoll \/ CertRead \/ CertLock \/ CertInstall

\* tls.Config.GetCertificate: the pair is read under the read lock when a
\* handshake starts; the handshake goes on with what it got
HsHello ==
    /\ proc = "running"
    /\ hs.pc \in {"idle", "done"}
    /\ RLockOK(mux)
    /\ hs' = [pc |-> "negotiating", cert |-> cert]
    /\ UNCHANGED <<proc, cfgFile, files, config, certPath, keyPath, cert, mux,
                   cfgW, certW, now, cache, rateLimiters, reqs, notes, hist>>

HsFinish ==
    /\ proc = "running"
    /\ hs.pc = "negotiating"
    /\ hs' = [hs EXCEPT !.pc = "done"]
    /\ UNCHANGED <<proc, cfgFile, files, config, certPath, keyPath, cert, mux,
                   cfgW, certW, now, cache, rateLimiters, reqs, notes, hist>>

-----------------------------------------------------------------------------
(* SpecRoute: the handler under every configuration of two keys *)

RouteKeys == {HostMain, Wild}
RouteTargets == {T80, T3000}

MapsTo(V) ==
    {NilMap} \cup {MkMap(f) : f \in UNION {[D -> V] : D \in SUBSET RouteKeys}}

RouteConfigs ==
    {Cfg(":80", ":443", "./certificate", "certificate.pem", "key.pem", r, t, n) :
        r \in MapsTo(RouteTargets), t \in MapsTo(BOOLEAN), n \in MapsTo(BOOLEAN)}

RouteRequests ==
    {Req("GET", t, h, URL("", "", <<"/", "x">>), "", <<>>, FALSE, <<"10.0.0.1", "5000">>) :
        t \in BOOLEAN, h \in {HostMain, HostOther}}

PlainResponses ==
    {BResp("none", StatusOK, Hdr(<<"application/pdf", "">>, "", <<>>, <<>>), <<"b1">>)}

InitRoute == \E c \in RouteConfigs : Running("custom", c)

NextRoute ==
    \E r \in {1} :
        \/ \E req \in RouteRequests : HandlerBegin(r, req, MaxReqs)
        \/ HandlerCheck(r)
        \/ \E b \in PlainResponses : HandlerDispatch(r, b, TRUE)

SpecRoute == InitRoute /\ [][NextRoute]_vars

-----------------------------------------------------------------------------
(* Claims checked under SpecRoute *)

\* the handler of slot r has looked its route up
Routed(r) == reqs[r].pc \in {"dispatch", "done"} /\ reqs[r].stage # "rate"

\* C1: routing.  For every host h and every configuration: a request that
\* reaches the route lookup with h a key of routes gets routes[h] as its
\* target; with h no key and '*' a key it gets routes['*']; with neither it is
\* answered 404 and no backend is contacted.  Every request that is forwarded
\* goes to the scheme and host of the target so chosen.
C1_Routing ==
    \A r \in Slots :
        Routed(r) =>
            LET h == reqs[r].req.host
                want == IF Has(config.Routes, h) THEN config.Routes.kv[h]
                        ELSE config.Routes.kv[Wild]
            IN IF Has(config.Routes, h) \/ Has(config.Routes, Wild)
               THEN /\ reqs[r].stage # "route"
                    /\ reqs[r].route.found
                    /\ reqs[r].route.target = want
                    /\ reqs[r].backend =>
                          /\ reqs[r].outURL.scheme = want.scheme
                          /\ reqs[r].outURL.host = want.host
               ELSE /\ reqs[r].stage = "route"
                    /\ reqs[r].pc = "done"
                    /\ reqs[r].reply.status = StatusNotFound
                    /\ ~reqs[r].backend

\* C1's case: a request for a host without a route of its own was forwarded
\* to the wildcard's target, which differs from the target of a configured host
C1_Witness ==
    \E r \in Slots :
        /\ reqs[r].backend
        /\ reqs[r].req.host = HostOther
        /\ Has(config.Routes, HostMain)
        /\ config.Routes.kv[HostMain] # config.Routes.kv[Wild]
        /\ reqs[r].outURL.host = config.Routes.kv[Wild].host

\* C2: the skip-verify and skip-redirect flags of a routed request are each
\* the host's own value when the host is a key of trust_target (of
\* no_https_redirect), and the wildcard's value otherwise, whatever the
\* routes lookup found
C2_FlagsIndependent ==
    \A r \in Slots :
        (Routed(r) /\ reqs[r].route.found) =>
            LET h == reqs[r].req.host
            IN /\ reqs[r].route.skipVerify =
                    IF Has(config.TrustTarget, h) THEN config.TrustTarget.kv[h]
                    ELSE MapGetBool(config.TrustTarget, Wild)
               /\ reqs[r].route.noHTTPSRedirect =
                    IF Has(config.NoHTTPSRedirect, h) THEN config.NoHTTPSRedirect.kv[h]
                    ELSE MapGetBool(config.NoHTTPSRedirect, Wild)

-----------------------------------------------------------------------------
(* SpecRate: one client address against the default configuration *)

RateRequests ==
    {Req("GET", TRUE, HostMain, URL("", "", <<"/", "x">>), <<>>, <<>>, FALSE,
         <<"10.0.0.1", port>>) : port \in {"5000", "5001"}}

InitRate == Running("D", generateDefaultConfig)

NextRate ==
    \/ \E req \in RateRequests : HandlerBegin(1, req, MaxRateReqs)
    \/ HandlerCheck(1)
    \/ \E b \in PlainResponses : HandlerDispatch(1, b, TRUE)
    \/ Tick

SpecRate == InitRate /\ [][NextRate]_vars

BurstTotal(ip) == hist.burst[ip].allowed + hist.burst[ip].rejected

\* C5: of 21 requests one address sends in one instant to a full bucket
\* (no request before, or none for two seconds) exactly 20 pass and one is
\* rejected, and up to 20 all pass; a rejected request is answered 429 and
\* is neither forwarded nor stored; after a second without a request from
\* the address at least 10 further requests pass.
C5_RateLimiting ==
    /\ \A ip \in IPs :
          LET b == hist.burst[ip]
              total == BurstTotal(ip)
          IN /\ (b.prevAt = 0 - 1 \/ b.at - b.prevAt >= 2) =>
                    /\ total <= 20 => b.rejected = 0
                    /\ total = 21 => b.allowed = 20 /\ b.rejected = 1
             /\ (b.prevAt # 0 - 1 /\ b.at - b.prevAt >= 1) =>
                    /\ total <= 10 => b.rejected = 0
                    /\ total > 10 => b.allowed >= 10
    /\ \A r \in Slots :
          reqs[r].stage = "rate" =>
              /\ reqs[r].reply.status = 429
              /\ reqs[r].pc = "done"
              /\ ~reqs[r].backend
              /\ URLString(reqs[r].req.url, reqs[r].req.query) \notin DOMAIN cache

\* 21 requests in the first instant, and in the next one 10 passed before
\* the 11th was rejected
C5_Witness ==
    /\ hist.nreq = 32
    /\ hist.burst["10.0.0.1"].at = 1
    /\ hist.burst["10.0.0.1"].prevAt = 0
    /\ hist.burst["10.0.0.1"].allowed = 10
    /\ hist.burst["10.0.0.1"].rejected = 1
    /\ reqs[1].stage = "rate"
    /\ reqs[1].reply.status = StatusTooManyRequests

-----------------------------------------------------------------------------
(* SpecCache: requests and backend answers against a fixed configuration *)

\* Origin-form requests (GET /x) and absolute-form ones
\* (GET http://127.0.0.1:80/x), whose Host is the URL's
CacheRequests ==
    {Req("GET", FALSE, HostOther, URL("", "", <<"/", "x">>), <<>>, <<>>, FALSE,
         <<"10.0.0.1", "5000">>)}
    \cup
    {Req("GET", FALSE, T80.host, URL("http", T80.host, <<"/", "x">>), <<>>, inm, FALSE,
         <<"10.0.0.1", "5000">>) : inm \in {<<>>, generateETag(<<"a">>), <<"W/1">>}}
    \cup
    {Req("GET", FALSE, T80.host, URL("http", T80.host, <<"/", "x">>), <<>>, <<>>, TRUE,
         <<"10.0.0.1", "5000">>)}

CacheResponses ==
    {BResp("none", StatusOK, Hdr(<<"text/", "html">>, "", <<>>, <<>>), <<"a">>),
     BResp("none", StatusOK, Hdr(<<"text/", "html">>, "", <<>>,
                                 <<Directive(FALSE, "max-age", 1, TRUE)>>), <<"b">>),
     BResp("fail", 0, NoHdr, <<>>)}
    \cup PlainResponses

InitCache == Running("E", Snapshot("E"))

NextCache ==
    \/ \E r \in {1} :
          \/ \E req \in CacheRequests : HandlerBegin(r, req, MaxReqs)
          \/ HandlerCheck(r)
          \/ \E b \in CacheResponses : HandlerDispatch(r, b, TRUE)
    \/ Tick

SpecCache == InitCache /\ [][NextCache]_vars

\* C3: a GET without If-None-Match that comes less than the time to live
\* after the response to the same request was stored does not contact the
\* backend and is sent the body the first one was sent.
C3_CacheCorrectness ==
    \A r \in Slots :
        (reqs[r].repeat /\ reqs[r].req.inm = <<>> /\ reqs[r].stage # "rate") =>
            /\ reqs[r].pc # "dispatch"
            /\ ~reqs[r].backend
            /\ reqs[r].pc = "done" => reqs[r].reply.body = hist.lastFetch.body

\* C4: a request that reaches the cache read while an unexpired entry is
\* stored under its key is answered 304 with an empty body when its
\* If-None-Match equals the entry's ETag, with the stored status, headers
\* and body otherwise, and never contacts the backend.
C4_ConditionalGet ==
    \A r \in Slots :
        (reqs[r].hadEntry /\ reqs[r].stage \in {"cache", "dispatch"}) =>
            /\ reqs[r].pc = "done"
            /\ ~reqs[r].backend
            /\ IF reqs[r].req.inm # <<>> /\ reqs[r].req.inm = reqs[r].entry.etag
               THEN /\ reqs[r].reply.status = 304
                    /\ reqs[r].reply.body = <<>>
               ELSE /\ reqs[r].reply.status = reqs[r].entry.statusCode
                    /\ reqs[r].reply.body = reqs[r].entry.body
                    /\ reqs[r].reply.hdr = reqs[r].entry.headers

\* a request whose If-None-Match is the stored entry's ETag was answered
\* 304 from the cache
C4_Witness ==
    /\ reqs[1].hadEntry /\ reqs[1].stage = "cache"
    /\ reqs[1].req.inm = reqs[1].entry.etag
    /\ reqs[1].reply.status = StatusNotModified
    /\ hist.calls = 1

-----------------------------------------------------------------------------
(* Spec: start-up, the operator's edits of config.yaml, monitorConfig and  *)
(* two handler goroutines                                                  *)

BootContents == {"missing", "malformed", "E", "N", "Z"}
EditContents == {"malformed", "E", "N", "Z"}

Requests ==
    {Req("GET", TRUE, h, URL("", "", <<"/", "x">>), <<>>, <<>>, FALSE,
         <<"10.0.0.1", "5000">>) : h \in {HostMain, HostOther}}

\* what the operator left in certificate.pem and key.pem: nothing, a pair,
\* or something that is no certificate
BootPairs == {"missing", "p1", "garbage"}

Init == \E content \in BootContents, pair \in BootPairs :
            Boot(content, pair, "missing")

Next ==
    \/ Main
    \/ \E content \in EditContents : EditConfig(content)
    \/ monitorConfig
    \/ \E r \in CfgSlots :
          \/ \E req \in Requests : HandlerBegin(r, req, MaxCfgReqs)
          \/ HandlerCheck(r)
          \/ \E b \in PlainResponses : HandlerDispatch(r, b, TRUE)

Spec == Init /\ [][Next]_vars

\* C8: the target and the two flags a request acts on are the ones its
\* host resolves to in the configuration as the last completed reload left
\* it, or in the one the reload in progress installs.
C8_ReloadAtomicity ==
    \A r \in Slots :
        Routed(r) =>
            \/ reqs[r].route = ResolveRoute(reqs[r].pre, reqs[r].req.host)
            \/ reqs[r].route = ResolveRoute(reqs[r].post, reqs[r].req.host)

\* a request read its route while a reload that changes it waited for the
\* lock, and acts on the old one
C8_Witness ==
    /\ cfgW.pc = "fields"
    /\ reqs[1].pc = "dispatch"
    /\ reqs[1].pre # reqs[1].post
    /\ ResolveRoute(reqs[1].pre, reqs[1].req.host)
         # ResolveRoute(reqs[1].post, reqs[1].req.host)
    /\ reqs[1].route = ResolveRoute(reqs[1].pre, reqs[1].req.host)

\* C9: a reload of a file that says what the live configuration says leaves
\* the live configuration as it was, does not call loadCertificate, and
\* logs no "Updated" or "Removed" line.
C9_ReloadIdempotent ==
    hist.before.ident =>
        /\ config = hist.before.config
        /\ proc = "running"
        /\ cfgW.pc # "stuck"
        /\ notes = {}

\* the operator rewrote the file with what it held and the reload is over
C9_Witness ==
    /\ hist.before.ident
    /\ hist.edits >= 1
    /\ cfgW.pc = "poll"
    /\ cfgW.last = cfgFile.mtime
    /\ cfgW.last >= 2

\* C10: once the process runs, the live routes hold the key "*".
C10_WildcardAlways ==
    proc = "running" => Has(config.Routes, Wild)

-----------------------------------------------------------------------------
(* SpecCert: the certificate files, the two watchers, TLS handshakes and   *)
(* one handler goroutine, under fair scheduling of the program's steps     *)

PrimaryPaths == {PathOf("./certificate", "certificate.pem"),
                 PathOf("./certificate", "key.pem")}

CertRequests ==
    {Req("GET", TRUE, HostMain, URL("", "", <<"/", "x">>), <<>>, <<>>, FALSE,
         <<"10.0.0.1", "5000">>)}

InitCert == \E pair \in {"missing", "p1", "bad"} : Boot("D", pair, "p2")

Operator ==
    \/ EditConfig("A")
    \/ \E p \in PrimaryPaths, content \in {"p2", "bad"} : WriteFile(p, content)

NextCert ==
    \/ Main
    \/ Operator
    \/ monitorConfig
    \/ monitorCertificates
    \/ HsHello
    \/ HsFinish
    \/ \E req \in CertRequests : HandlerBegin(1, req, MaxCertReqs)
    \/ HandlerCheck(1)
    \/ \E b \in PlainResponses : HandlerDispatch(1, b, TRUE)

\* Every goroutine that can take a step takes one; a goroutine waiting for
\* configMux gets it when it is free again and again.  The operator and
\* the clients owe nothing.
FairCert ==
    /\ WF_vars(Main)
    /\ WF_vars(CfgPoll) /\ SF_vars(CfgLock) /\ WF_vars(CfgFields)
    /\ WF_vars(CfgRoutes) /\ WF_vars(CfgTrust) /\ WF_vars(CfgNoRedirect)
    /\ WF_vars(CertPoll) /\ WF_vars(CertRead) /\ SF_vars(CertLock)
    /\ WF_vars(CertInstall)
    /\ WF_vars(HsFinish)
    /\ WF_vars(HandlerCheck(1))
    /\ WF_vars(\E b \in PlainResponses : HandlerDispatch(1, b, TRUE))

SpecCert == InitCert /\ [][NextCert]_vars /\ FairCert

FilesHold(p) ==
    /\ proc = "running"
    /\ files[certPath].content = p
    /\ files[keyPath].content = p

\* C6: once the configured certificate and key files hold a new valid pair,
\* the pair is in the certificate store at some later time, unless the
\* files are changed again first.
C6_HotReload ==
    \A p \in Pairs : FilesHold(p) ~> (cert = p \/ ~FilesHold(p))

\* C7: once the process runs the certificate store holds a parsed pair, and
\* a load that fails, the watcher's or the one after a change of the
\* certificate names, leaves the store's pair as it was.
C7_FailSafe ==
    /\ [](proc = "running" => cert \in Pairs)
    /\ [][(certW.pc = "read" /\ certW'.pc = "poll") => cert' = cert]_vars
    /\ [][(cfgW.pc = "fields" /\ cfgW'.pc = "routes") => cert' = cert]_vars

\* the watcher saw a certificate file that does not parse, its load failed,
\* and the store holds the pair it held
C7_Witness ==
    /\ proc = "running"
    /\ certW.pc = "poll"
    /\ files[certPath].content = "bad"
    /\ certW.stat = files[certPath].mtime
    /\ certW.stat # certW.last
    /\ cert = "p1"

-----------------------------------------------------------------------------
(* SpecOrder: one client address sends requests of every kind in one       *)
(* instant, to a configuration without wildcard                            *)

HostApp == "app.example.com"
HostBad == "bad.example.com"

\* a target named by a DNS name
TName == URL("http", "backend.internal:8080", <<>>)

OrderConfig ==
    Cfg(":80", ":443", "./certificate", "certificate.pem", "key.pem",
        MkMap((T3000.host :> T3000) @@ (HostMain :> T3000) @@ (HostApp :> TName)
              @@ (HostBad :> TBad)),
        MkMap(HostMain :> TRUE), MkMap(EmptyKV))

\* Upgrade header values: WebSocket in two spellings and another protocol
UpgradeValues == {"websocket", "WebSocket", "h2c"}

\* On either listener: GET /x for a host without route and for configured
\* hosts; the absolute-form GET https://127.0.0.1:3000/x, over TLS also with
\* If-None-Match; and upgrade requests over TLS
OrderRequests ==
    {Req("GET", tls, h, URL("", "", <<"/", "x">>), <<>>, <<>>, FALSE,
         <<"10.0.0.1", "5000">>) :
        tls \in BOOLEAN, h \in {HostMain, HostOther, HostBad}}
    \cup
    {Req("GET", tls, T3000.host, URL("https", T3000.host, <<"/", "x">>), <<>>, <<>>,
         FALSE, <<"10.0.0.1", "5000">>) : tls \in BOOLEAN}
    \cup
    {Req("GET", TRUE, T3000.host, URL("https", T3000.host, <<"/", "x">>), <<>>,
         generateETag(<<"a">>), FALSE, <<"10.0.0.1", "5000">>)}
    \cup
    {WithUpgrade(Req("GET", TRUE, h, URL("", "", <<"/", "x">>), <<>>, <<>>, FALSE,
                     <<"10.0.0.1", "5000">>), v) :
        h \in {HostMain, HostBad}, v \in UpgradeValues}

OrderResponses ==
    {BResp("none", StatusOK, Hdr(<<"text/", "html">>, "", <<>>, <<>>), <<"a">>),
     BResp("none", 503, Hdr(<<"text/", "html">>, "", <<>>, <<>>), <<"e">>),
     BResp("fail", 0, NoHdr, <<>>),
     BResp("canceled", 0, NoHdr, <<>>)}

\* What taking over the client connection gives under net/http's server:
\* the HTTP/1 ResponseWriter is an http.Hijacker whose Hijack fails only on
\* a connection that was taken over before, and a request over HTTP/2 that
\* carries an Upgrade field is refused by the server before the handler
\* runs.
HijackOutcomes == {"ok"}

InitOrder == Running("custom", OrderConfig)

NextOrder ==
    \/ \E req \in OrderRequests : HandlerBegin(1, req, MaxOrderReqs)
    \/ HandlerCheck(1)
    \/ \E b \in OrderResponses : HandlerDispatch(1, b, TRUE)
    \/ \E hj \in HijackOutcomes : HandlerWebSocket(1, hj)

SpecOrder == InitOrder /\ [][NextOrder]_vars

(* SpecForward: requests over TLS that are forwarded, to backends whose     *)
(* certificate verifies or not and whose answer may break off              *)

\* GET /x for hosts with an IP-literal and with a DNS-name target, one
\* accepting gzip, one HTTP/2 request that carries a host field, and the
\* absolute-form GET https://127.0.0.1:3000/x
ForwardRequests ==
    {Req("GET", TRUE, HostMain, URL("", "", <<"/", "x">>), <<>>, <<>>, FALSE,
         <<"10.0.0.1", "5000">>)}
    \cup
    {Req("GET", TRUE, HostApp, URL("", "", <<"/", "x">>), <<>>, <<>>, g,
         <<"10.0.0.1", "5000">>) : g \in BOOLEAN}
    \cup
    {WithHostHeader(Req("GET", TRUE, HostApp, URL("", "", <<"/", "x">>), <<>>, <<>>,
                        FALSE, <<"10.0.0.1", "5000">>), HostApp)}
    \cup
    {Req("GET", TRUE, T3000.host, URL("https", T3000.host, <<"/", "x">>), <<>>, <<>>,
         FALSE, <<"10.0.0.1", "5000">>)}

ForwardResponses ==
    {BResp("none", StatusOK, Hdr(<<"text/", "html">>, "", <<>>, <<>>), <<"a">>),
     BResp("none", 503, Hdr(<<"text/", "html">>, "", <<>>, <<>>), <<"e">>),
     BResp("body", StatusOK, Hdr(<<"text/", "html">>, "", <<>>, <<>>), <<"a">>),
     BResp("body", 503, Hdr(<<"text/", "html">>, "", <<>>, <<>>), <<"e">>),
     BResp("fail", 0, NoHdr, <<>>),
     BResp("canceled", 0, NoHdr, <<>>)}

NextForward ==
    \/ \E req \in ForwardRequests : HandlerBegin(1, req, MaxReqs)
    \/ HandlerCheck(1)
    \/ \E b \in ForwardResponses, certOK \in BOOLEAN : HandlerDispatch(1, b, certOK)

SpecForward == InitOrder /\ [][NextForward]_vars

Answered(r) == reqs[r].pc \in {"dispatch", "done"}

C12_HTTPSRedirect ==
    \A r \in Slots :
        reqs[r].pc = "done" =>
            LET req == reqs[r].req
                rt == ResolveRoute(config, req.host)
            IN (/\ reqs[r].reply.status = StatusMovedPermanently
                /\ reqs[r].reply.location =
                       <<"https://", req.host, req.url.path, req.query>>
                /\ ~reqs[r].backend)
               = (rt.found /\ isHTTPS(rt.target) /\ ~rt.noHTTPSRedirect /\ ~req.tls)

\* the status the client was sent is the backend's own, relayed or replayed
\* from the cache
BackendStatus(r) ==
    \/ /\ reqs[r].backend /\ reqs[r].got.err = "none"
       /\ reqs[r].reply.status = reqs[r].got.status
    \/ /\ reqs[r].stage = "cache" /\ reqs[r].hadEntry
       /\ reqs[r].reply.status = reqs[r].entry.statusCode

\* the status the client was sent is one of 301, 304, 404, 429, 502, sent by
\* the proxy under the condition stated for it
ProxyStatus(r) ==
    LET req == reqs[r].req
        rt == ResolveRoute(config, req.host)
        st == reqs[r].reply.status
    IN \/ st = 429 /\ ~reqs[r].took /\ ~reqs[r].backend
       \/ st = 404 /\ ~rt.found /\ ~reqs[r].backend
       \/ st = 301 /\ NeedsRedirect(req, rt) /\ ~reqs[r].backend
       \/ /\ st = 304 /\ ~reqs[r].backend /\ reqs[r].hadEntry
          /\ req.inm # <<>> /\ req.inm = reqs[r].entry.etag
       \/ st = 502 /\ reqs[r].backend /\ reqs[r].got.err = "fail"

\* status 500: the target does not parse as a URL
ServerErrorStatus(r) ==
    /\ reqs[r].reply.status = 500
    /\ ~reqs[r].backend
    /\ reqs[r].stage = "dispatch"
    /\ urlParseErr(reqs[r].route.target)

\* C13 as stated: every status a client receives is one of 301, 304, 404,
\* 429, 502 sent by the proxy under its condition, or the backend's own.
C13_StatusCodes ==
    \A r \in Slots :
        (reqs[r].pc = "done" /\ reqs[r].reply.status # 0) =>
            ProxyStatus(r) \/ BackendStatus(r)

\* C13, amended: every status a client receives is one of 301, 304, 404,
\* 429, 500, 502 sent by the proxy under its condition (500: the route's
\* target does not parse), or the backend's own status relayed or replayed.
C13_StatusCodesWith500 ==
    \A r \in Slots :
        (reqs[r].pc = "done" /\ reqs[r].reply.status # 0) =>
            ProxyStatus(r) \/ ServerErrorStatus(r) \/ BackendStatus(r)

\* a request over TLS for a host whose target does not parse got a 500
C13_Witness ==
    /\ reqs[1].pc = "done"
    /\ reqs[1].reply = InvalidTarget
    /\ reqs[1].req.tls
    /\ urlParseErr(ResolveRoute(config, reqs[1].req.host).target)

\* isIPTarget: the host, its port split off, parses as an IP address
isIPTarget(host) == host \in {T3000.host, T4444.host, T80.host}

\* C14: the Host sent to the backend is the client's Host when the target's
\* host is a DNS name, and the target's host:port when it is an IP literal.
C14_HostHeader ==
    \A r \in Slots :
        (reqs[r].pc = "done" /\ reqs[r].backend) =>
            reqs[r].outHost = IF isIPTarget(reqs[r].route.target.host)
                              THEN reqs[r].route.target.host
                              ELSE reqs[r].req.host

\* C15: for every forwarded request the transport verifies the backend's
\* certificate exactly when the skip-verify flag resolved for the request's
\* host is false: an https backend whose certificate does not verify is
\* never relayed under a false flag (the exchange fails, 502).
C15_BackendTrust ==
    \A r \in Slots :
        (reqs[r].pc = "done" /\ reqs[r].backend) =>
            LET flag == ResolveRoute(config, reqs[r].req.host).skipVerify
                bad == isHTTPS(reqs[r].route.target) /\ ~reqs[r].certOK
            IN /\ reqs[r].verify = ~flag
               /\ (bad /\ ~flag) =>
                     (reqs[r].got.err = "fail" /\ reqs[r].reply.status = StatusBadGateway)

\* a host with trust_target true got the answer of an https backend whose
\* certificate does not verify
C15_Witness ==
    /\ reqs[1].pc = "done" /\ reqs[1].backend
    /\ ResolveRoute(config, reqs[1].req.host).skipVerify
    /\ isHTTPS(reqs[1].route.target) /\ ~reqs[1].certOK
    /\ reqs[1].reply.status = StatusOK

\* C16 as stated: a failed exchange with the backend is answered 502 and
\* stores nothing; a cancellation by the client gets no response and
\* stores nothing.
C16_BackendFailure ==
    \A r \in Slots :
        (reqs[r].pc = "done" /\ reqs[r].backend) =>
            /\ reqs[r].got.err \in {"fail", "body"} =>
                  (reqs[r].reply.status = StatusBadGateway /\ cache = reqs[r].cacheWas)
            /\ reqs[r].got.err = "canceled" =>
                  (reqs[r].reply = NoReply /\ cache = reqs[r].cacheWas)

\* C16, amended: an exchange that fails before a response header came, or
\* while the proxy reads the body to compress or cache it, is answered 502;
\* when the body of a response that is neither compressed nor cached fails
\* while it is relayed, the backend's status has been sent and the response
\* is cut short; a cancellation by the client gets no response; in none of
\* these cases is a cache entry stored.
C16_FailureBeforeRelay ==
    \A r \in Slots :
        (reqs[r].pc = "done" /\ reqs[r].backend) =>
            LET g == reqs[r].got
                early == \/ g.err = "fail"
                         \/ g.err = "body" /\ readsBody(reqs[r].req, g)
            IN /\ early => reqs[r].reply.status = StatusBadGateway
               /\ (g.err = "body" /\ ~early) =>
                     (reqs[r].reply.status = g.status /\ reqs[r].aborted)
               /\ g.err = "canceled" => reqs[r].reply = NoReply
               /\ g.err # "none" => (~reqs[r].stored /\ cache = reqs[r].cacheWas)

\* a backend that answered 503 broke off in the body, which the proxy was
\* relaying unread: the client has the 503, cut short, not a 502
C16_Witness ==
    /\ reqs[1].pc = "done" /\ reqs[1].backend
    /\ reqs[1].got.err = "body" /\ ~readsBody(reqs[1].req, reqs[1].got)
    /\ reqs[1].reply.status = 503
    /\ cache # EmptyCache

\* no request has entered the handler
Unserved ==
    /\ hist.nreq = 0 /\ hist.calls = 0
    /\ \A r \in Slots : reqs[r] = IdleSlot

\* C19: no request is served before main has a configuration and a
\* certificate pair; main goes on to serve exactly when config.yaml is
\* absent (the default is written) or loads and the certificate files, after
\* generation when one is missing, hold a pair; otherwise the process ends
\* and has served nothing.
C19_Startup ==
    /\ []((proc = "boot" \/ (proc = "dead" /\ cert = "nil")) => Unserved)
    /\ [](proc = "running" => cert \in Pairs)
    /\ [][proc = "boot" =>
            LET absent == cfgFile.content = "missing"
                cfgOK == absent \/ cfgFile.content \in SnapshotNames
                certOK == /\ files'[certPath'].content \in Pairs
                          /\ files'[keyPath'].content = files'[certPath'].content
            IN IF ~cfgOK THEN proc' = "dead" /\ cert' = "nil" /\ config' = ZeroConfig
               ELSE /\ config' = IF absent THEN generateDefaultConfig
                                  ELSE Snapshot(cfgFile.content)
                    /\ IF certOK
                       THEN proc' = "running" /\ cert' = files'[certPath'].content
                       ELSE proc' = "dead" /\ cert' = "nil"]_vars

\* config.yaml loaded, the certificate files hold no pair: the process
\* ended before a listener was started
C19_Witness ==
    /\ proc = "dead"
    /\ config = Snapshot("N")
    /\ cert = "nil"
    /\ files[certPath].content = "garbage"
    /\ Unserved

\* C20: once the process runs, nothing a watcher finds in config.yaml or in
\* the certificate files ends the process or stops the watcher.
C20_WatcherRobust ==
    [][proc = "running" =>
          /\ proc' = "running"
          /\ cfgW'.pc # "stuck"]_vars

-----------------------------------------------------------------------------
(* SpecEnsure: start-up over every combination of absent, paired and       *)
(* unusable certificate files, under the default names, other names, and   *)
(* one name for certificate and key                                        *)

EnsureContents == {"missing", "A", "S"}
EnsureFiles == {"missing", "p1", "garbage"}
EnsureModes == {Perm0600, Perm0644}

InitEnsure == \E content \in EnsureContents, fc \in [Paths -> EnsureFiles],
                 mode \in EnsureModes :
                  BootFiles(content, fc, mode)

NextEnsure == Main

SpecEnsure == InitEnsure /\ [][NextEnsure]_vars

\* C23: when main finds the certificate file or the key file missing, both
\* files exist afterwards and tls.X509KeyPair accepts them; when both exist,
\* both are left as they were.
C23_Ensure ==
    [][(proc = "boot" /\ certPath' \in Paths) =>
          IF files[certPath'].content = "missing"
             \/ files[keyPath'].content = "missing"
          THEN /\ files'[certPath'].content # "missing"
               /\ files'[keyPath'].content # "missing"
               /\ ~X509KeyPair(files'[certPath'].content,
                               files'[keyPath'].content).err
          ELSE /\ files'[certPath'] = files[certPath']
               /\ files'[keyPath'] = files[keyPath']]_vars

\* a mode that gives nobody but the owning user access
OwnerOnly(mode) == mode \subseteq {"ur", "uw", "ux"}

\* C24: whenever main writes the key file, creating it or writing over a
\* file that exists, the file's mode afterwards is owner-only.
C24_KeyOwnerOnly ==
    [][(/\ proc = "boot" /\ certPath' \in Paths
        /\ \/ files[certPath'].content = "missing"
           \/ files[keyPath'].content = "missing") =>
          OwnerOnly(files'[keyPath'].mode)]_vars

\* C25: the reload's step from the scalar fields on, when the certificate
\* names changed, goes on to the routes with the store holding the pair at
\* the new paths when tls.X509KeyPair accepts it and the previous pair
\* otherwise; it does not end waiting for the lock.
C25_ReloadNewNames ==
    [][(/\ cfgW.pc = "fields" /\ cfgW'.pc # "fields"
        /\ certPath' # certPath \/ keyPath' # keyPath) =>
          LET kpair == X509KeyPair(files[certPath'].content,
                                   files[keyPath'].content)
          IN /\ cfgW'.pc = "routes"
             /\ cert' = IF kpair.err THEN cert ELSE kpair.pair]_vars

-----------------------------------------------------------------------------
(* SpecWatch: the certificate watcher and an operator who writes the       *)
(* certificate file and the key file, one at a time                        *)

WatchContents == {"p1", "p2"}

InitWatch == Boot("D", "p1", "missing")

NextWatch ==
    \/ Main
    \/ \E p \in PrimaryPaths, content \in WatchContents : WriteFile(p, content)
    \/ monitorCertificates
    \/ Tick

SpecWatch == InitWatch /\ [][NextWatch]_vars

\* C26: a tick of the certificate watcher calls loadCertificate only when
\* the modification time of the certificate file or of the key file is not
\* the one the latest tick with a successful load saw, whether the two files
\* have one modification time or two.
C26_ReloadOnlyOnChange ==
    certW.pc = "read" =>
        certW.stat # certW.okCert \/ certW.keyStat # certW.okKey

\* C27: each of the reload's three merges leaves its section of the live
\* configuration equal, key for key, to the loaded snapshot's, and when the
\* last one is done the live configuration says what the snapshot says;
\* this for sections that are absent on either side too.
C27_DiffMerge ==
    [][(/\ proc = "running"
        /\ cfgW.pc \in {"routes", "trust", "nored"}
        /\ cfgW' # cfgW \/ proc' # proc) =>
          /\ proc' = "running"
          /\ cfgW.pc = "routes" => config'.Routes.kv = cfgW.new.Routes.kv
          /\ cfgW.pc = "trust" => config'.TrustTarget.kv = cfgW.new.TrustTarget.kv
          /\ cfgW.pc = "nored" => SameContent(config', cfgW.new)]_vars

-----------------------------------------------------------------------------
(* SpecReload: the config watcher and an operator who leaves config.yaml   *)
(* unreadable or malformed at times; the watcher's loop runs for ever      *)

ReloadContents == {"malformed", "unreadable", "E", "N"}

InitReload == Running("E", Snapshot("E"))

NextReload ==
    \/ \E content \in ReloadContents : EditConfig(content)
    \/ monitorConfig
    \/ CfgPollFail
    \/ \E req \in Requests : HandlerBegin(1, req, MaxCfgReqs)
    \/ HandlerCheck(1)
    \/ \E b \in PlainResponses : HandlerDispatch(1, b, TRUE)

FairReload ==
    /\ WF_vars(CfgPoll) /\ WF_vars(CfgPollFail)

SpecReload == InitReload /\ [][NextReload]_vars /\ FairReload

\* C28: a tick whose loadConfig fails leaves the live configuration, the
\* derived paths and the certificate store as they were and the watcher at
\* its poll with lastModTime unchanged; and once such a tick has happened
\* and the file loads again, a later tick loads it, unless the file is left
\* unloadable again.
C28_FailedReload ==
    /\ [][cfgW'.fails > cfgW.fails =>
            /\ config' = config /\ cert' = cert
            /\ certPath' = certPath /\ keyPath' = keyPath
            /\ cfgW'.pc = "poll" /\ cfgW'.last = cfgW.last
            /\ cfgFile'.mtime # cfgW'.last]_vars
    /\ (cfgW.fails > 0 /\ ~loadConfig(cfgFile).err)
          ~> (cfgW.fails = 0 \/ loadConfig(cfgFile).err)

\* two ticks in a row failed on a malformed file that the operator wrote
\* over the loaded one, and the live configuration is the loaded one
C28_Witness ==
    /\ cfgW.pc = "poll"
    /\ cfgW.fails >= 2
    /\ cfgFile.content = "malformed"
    /\ cfgW.last >= 1
    /\ cfgW.last # cfgFile.mtime
    /\ config = Snapshot("E")
    /\ cert = "p1"

-----------------------------------------------------------------------------
(* SpecStore: GET and POST requests over TLS, answered by the backend with *)
(* either status and every kind of content type, while time passes         *)

StoreRequests ==
    {Req(m, TRUE, T3000.host, URL("https", T3000.host, <<"/", "x">>), <<>>, <<>>,
         FALSE, <<"10.0.0.1", "5000">>) : m \in {"GET", "POST"}}
    \cup
    {Req("GET", TRUE, HostMain, URL("", "", <<"/", "y">>), <<>>, <<>>, FALSE,
         <<"10.0.0.1", "5000">>)}

\* Content-Type values: the four cacheable kinds, a PDF, text/html spelt
\* with a capital, and none
StoreTypes ==
    {<<"text/", "html">>, <<"image/", "png">>, <<"application/json", "">>,
     <<"application/javascript", "">>, <<"application/pdf", "">>,
     <<"Text/", "html">>, <<"", "">>}

StoreResponses ==
    {BResp("none", st, Hdr(ct, "", <<>>, <<>>), <<"a">>) :
        st \in {StatusOK, StatusNotFound}, ct \in StoreTypes}
    \cup
    {BResp("body", StatusOK, Hdr(<<"text/", "html">>, "", <<>>, <<>>), <<"a">>)}

NextStore ==
    \/ \E req \in StoreRequests : HandlerBegin(1, req, MaxStoreReqs)
    \/ HandlerCheck(1)
    \/ \E b \in StoreResponses : HandlerDispatch(1, b, TRUE)
    \/ Tick

SpecStore == InitOrder /\ [][NextStore]_vars

\* C29: every entry in the cache has status 200 and a content type that
\* starts with text/, image/, application/javascript or application/json;
\* an entry appears or changes only when a GET request is answered by the
\* backend with such a response, under that request's outbound URL; and no
\* entry ever disappears.
C29_CacheEligibility ==
    /\ [](\A k \in DOMAIN cache :
            /\ cache[k].statusCode = 200
            /\ cache[k].headers.ctype[1] \in
                  {"text/", "image/", "application/javascript", "application/json"})
    /\ [][DOMAIN cache \subseteq DOMAIN cache']_vars
    /\ [][\A k \in DOMAIN cache' :
            (k \notin DOMAIN cache \/ cache'[k] # cache[k]) =>
               \E r \in Slots :
                  /\ reqs[r].pc = "dispatch" /\ reqs'[r].pc = "done"
                  /\ reqs'[r].req.method = "GET"
                  /\ reqs'[r].got.err = "none"
                  /\ reqs'[r].got.status = 200
                  /\ reqs'[r].got.hdr.ctype[1] \in
                        {"text/", "image/", "application/javascript",
                         "application/json"}
                  /\ k = cacheWriteKey(reqs[r].route.target, reqs[r].req)]_vars

\* a GET answered 200 with an image wrote over the entry of an earlier GET
C29_Witness ==
    /\ reqs[1].pc = "done" /\ reqs[1].stored
    /\ reqs[1].req.method = "GET"
    /\ reqs[1].got.hdr.ctype = <<"image/", "png">>
    /\ reqs[1].cacheWas # EmptyCache
    /\ cache # reqs[1].cacheWas
    /\ DOMAIN cache = DOMAIN reqs[1].cacheWas
    /\ hist.calls = 2

-----------------------------------------------------------------------------
(* SpecTTL: GET requests over TLS answered 200 text/html with several      *)
(* Cache-Control headers                                                   *)

\* Cache-Control values: "max-age=2", "public, max-age=2",
\* "public,max-age=2", "max-age=0" and "no-transform"
TTLCacheControls ==
    {<<Directive(FALSE, "max-age", 2, TRUE)>>,
     <<Directive(FALSE, "public", 0, FALSE), Directive(TRUE, "max-age", 2, TRUE)>>,
     <<Directive(FALSE, "public", 0, FALSE), Directive(FALSE, "max-age", 2, TRUE)>>,
     <<Directive(FALSE, "max-age", 0, TRUE)>>,
     <<Directive(FALSE, "no-transform", 0, FALSE)>>}

TTLRequests ==
    {Req("GET", TRUE, T3000.host, URL("https", T3000.host, <<"/", "x">>), <<>>, <<>>,
         g, <<"10.0.0.1", "5000">>) : g \in BOOLEAN}

TTLResponses ==
    {BResp("none", StatusOK, Hdr(<<"text/", "html">>, "", <<>>, cc), <<"a">>) :
        cc \in TTLCacheControls \cup {<<>>}}

NextTTL ==
    \/ \E req \in TTLRequests : HandlerBegin(1, req, MaxStoreReqs)
    \/ HandlerCheck(1)
    \/ \E b \in TTLResponses : HandlerDispatch(1, b, TRUE)
    \/ Tick

SpecTTL == InitOrder /\ [][NextTTL]_vars

\* C30: an entry's time-to-live is the value of the first max-age
\* directive of the Cache-Control header it was stored with, wherever the
\* directive stands and whatever its value, 0 included; it is the default
\* of five minutes only when the header has no max-age directive.
C30_CacheTTL ==
    \A k \in DOMAIN cache :
        LET cc == cache[k].headers.cc
            ages == {i \in 1..Len(cc) : cc[i].name = "max-age" /\ cc[i].numeric}
            first == CHOOSE i \in ages : \A j \in ages : i <= j
        IN IF ages # {} THEN cache[k].cacheDuration = cc[first].val
           ELSE cache[k].cacheDuration = defaultCacheTTL

-----------------------------------------------------------------------------
(* SpecFirst: three handler goroutines serve requests for one URL whose    *)
(* response is cacheable, in one instant, starting with an empty cache     *)

FirstRequests ==
    {Req("GET", TRUE, T3000.host, URL("https", T3000.host, <<"/", "x">>), <<>>, <<>>,
         FALSE, <<"10.0.0.1", "5000">>)}

FirstResponses ==
    {BResp("none", StatusOK, Hdr(<<"text/", "html">>, "", <<>>, <<>>), <<"a">>)}

NextFirst ==
    \E r \in Slots :
        \/ \E req \in FirstRequests : HandlerBegin(r, req, MaxFirstReqs)
        \/ HandlerCheck(r)
        \/ \E b \in FirstResponses : HandlerDispatch(r, b, TRUE)

SpecFirst == InitOrder /\ [][NextFirst]_vars

\* C31: however many requests for one cacheable URL arrive while the cache
\* has no entry for it, the backend is contacted at most twice.
C31_FirstAccess == hist.calls <= 2

-----------------------------------------------------------------------------
(* SpecTunnel: WebSocket upgrades for hosts whose targets parse, with and  *)
(* without verification of the target's certificate                        *)

TunnelRequests ==
    {WithUpgrade(Req("GET", TRUE, h, URL("", "", <<"/", "ws">>), <<>>, <<>>, FALSE,
                     <<ip, "5000">>), v) :
        h \in {HostMain, T3000.host, HostApp}, v \in {"websocket", "WebSocket"},
        ip \in {"10.0.0.1", "10.0.0.2"}}

NextTunnel ==
    \E r \in CfgSlots :
        \/ \E req \in TunnelRequests : HandlerBegin(r, req, MaxFirstReqs)
        \/ HandlerCheck(r)
        \/ \E hj \in HijackOutcomes : HandlerWebSocket(r, hj)

SpecTunnel == InitOrder /\ [][NextTunnel]_vars

\* C33: every upgrade request for a host with a usable target gets, once the
\* client connection is taken over, a connection to the target: over TLS
\* with verification exactly when the target is https and skip-verify is
\* off, for either value of skip-verify.
C33_TunnelDial ==
    \A r \in Slots :
        reqs[r].hijack = "ok" =>
            reqs[r].dial = (IF reqs[r].route.target.scheme = "https"
                            THEN IF reqs[r].route.skipVerify THEN "tls" ELSE "tls-verified"
                            ELSE "tcp")

-----------------------------------------------------------------------------
(* SpecBucket: two handler goroutines serve clients at two addresses, one  *)
(* of them from two ports, while time passes                                *)

BucketRequests ==
    {Req("GET", TRUE, HostMain, URL("", "", <<"/", "x">>), <<>>, <<>>, FALSE, ra) :
        ra \in {<<"10.0.0.1", "5000">>, <<"10.0.0.1", "5001">>, <<"10.0.0.2", "5000">>}}

NextBucket ==
    \/ \E r \in CfgSlots :
          \/ \E req \in BucketRequests : HandlerBegin(r, req, MaxBucketReqs)
          \/ HandlerCheck(r)
          \/ \E b \in PlainResponses : HandlerDispatch(r, b, TRUE)
    \/ Tick

SpecBucket == InitOrder /\ [][NextBucket]_vars

\* C34: an address has one bucket from its first request on: the bucket
\* stays in the map, only a request from that address changes it, and what
\* such a request does (whatever its port) is one Allow on the bucket as it
\* stood, or on a full new one if the address had none.
C34_OneBucketPerIP ==
    [][/\ \A ip \in DOMAIN rateLimiters :
            /\ ip \in DOMAIN rateLimiters'
            /\ rateLimiters'[ip] # rateLimiters[ip] =>
                  \E r \in Slots : /\ reqs[r].pc = "locked" /\ reqs'[r].pc # "locked"
                                   /\ ClientIP(reqs[r].req) = ip
       /\ \A r \in Slots :
            reqs[r].pc = "locked" /\ reqs'[r].pc # "locked" =>
                LET ip == ClientIP(reqs[r].req)
                    was == IF ip \in DOMAIN rateLimiters
                           THEN rateLimiters[ip] ELSE NewLimiter
                IN /\ ip \in DOMAIN rateLimiters'
                   /\ rateLimiters'[ip] = AllowAt(was, now).lim]_vars

\* both addresses have a bucket; two requests from 10.0.0.1, from different
\* ports and in flight together, have each taken a token from the one bucket
C34_Witness ==
    /\ DOMAIN rateLimiters = {"10.0.0.1", "10.0.0.2"}
    /\ reqs[1].req.remote = <<"10.0.0.1", "5000">>
    /\ reqs[2].req.remote = <<"10.0.0.1", "5001">>
    /\ reqs[1].pc = "dispatch" /\ reqs[2].pc = "dispatch"
    /\ now = 0
    /\ rateLimiters["10.0.0.1"].tokens = rateBurst - 2
    /\ rateLimiters["10.0.0.2"].tokens = rateBurst - 1

-----------------------------------------------------------------------------
(* Reloads and the requests in flight (under SpecCert) *)

\* a watcher has called configMux.Lock() and the call has not returned
ReloadPending == cfgW.pc = "fields" \/ certW.pc = "install"

-----------------------------------------------------------------------------
(* SpecRoutes: the plaintext listener and the reload of golangproxy/main.go. *)
(* Here mux is routesMutex, whose readers are pairs <<goroutine, depth>>,    *)
(* config is currentConfig with the route table built from it, and cfgW is  *)
(* the goroutine that receives the file events.                              *)

\* getConfigBool: the host's value, or the wildcard's
getConfigBool(m, host) == IF Has(m, host) THEN m.kv[host] ELSE MapGetBool(m, Wild)

\* getRoute's lookup in the table initializeRoutes built from c: the host's
\* route, or defaultRoute
getRoute(c, host) ==
    LET key == IF host # Wild /\ Has(c.Routes, host) THEN host ELSE Wild
    IN [found |-> TRUE, target |-> c.Routes.kv[key],
        skipVerify |-> IF key = Wild THEN MapGetBool(c.TrustTarget, Wild)
                       ELSE getConfigBool(c.TrustTarget, host),
        noHTTPSRedirect |-> IF key = Wild THEN MapGetBool(c.NoHTTPSRedirect, Wild)
                            ELSE getConfigBool(c.NoHTTPSRedirect, host)]

\* the HTTP server's handler is entered: routesMutex.RLock()
routeHandlerRLock(r, req) ==
    /\ proc = "running"
    /\ reqs[r].pc \in {"idle", "done"}
    /\ hist.nreq < MaxFirstReqs
    /\ RLockOK(mux)
    /\ reqs' = [reqs EXCEPT ![r] = [IdleSlot EXCEPT !.pc = "outer", !.req = req]]
    /\ mux' = [mux EXCEPT !.readers = @ \cup {<<r, 1>>}]
    /\ hist' = [hist EXCEPT !.nreq = @ + 1]
    /\ UNCHANGED <<proc, cfgFile, files, config, certPath, keyPath, cert, cfgW,
                   certW, now, cache, rateLimiters, hs, notes>>

\* getRoute is entered: routesMutex.RLock() again, by the goroutine that
\* holds the read lock
getRouteRLock(r) ==
    /\ proc = "running"
    /\ reqs[r].pc = "outer"
    /\ RLockOK(mux)
    /\ reqs' = [reqs EXCEPT ![r] = [@ EXCEPT !.pc = "inner"]]
    /\ mux' = [mux EXCEPT !.readers = @ \cup {<<r, 2>>}]
    /\ UNCHANGED <<proc, cfgFile, files, config, certPath, keyPath, cert, cfgW,
                   certW, now, cache, rateLimiters, hs, notes, hist>>

\* getRoute returns the route; its deferred RUnlock runs
getRouteReturn(r) ==
    /\ proc = "running"
    /\ reqs[r].pc = "inner"
    /\ reqs' = [reqs EXCEPT ![r] =
          [@ EXCEPT !.pc = "routed", !.route = getRoute(config, reqs[r].req.host)]]
    /\ mux' = [mux EXCEPT !.readers = @ \ {<<r, 2>>}]
    /\ UNCHANGED <<proc, cfgFile, files, config, certPath, keyPath, cert, cfgW,
                   certW, now, cache, rateLimiters, hs, notes, hist>>

\* the handler's routesMutex.RUnlock(); the request is then served without
\* the lock
routeHandlerRUnlock(r) ==
    /\ proc = "running"
    /\ reqs[r].pc = "routed"
    /\ reqs' = [reqs EXCEPT ![r] = [@ EXCEPT !.pc = "done"]]
    /\ mux' = [mux EXCEPT !.readers = @ \ {<<r, 1>>}]
    /\ UNCHANGED <<proc, cfgFile, files, config, certPath, keyPath, cert, cfgW,
                   certW, now, cache, rateLimiters, hs, notes, hist>>

\* reloadConfig on a write event for the config file, up to the call of
\* routesMutex.Lock() in initializeRoutes
reloadConfig ==
    /\ proc = "running"
    /\ cfgW.pc = "poll"
    /\ cfgFile.mtime # cfgW.last
    /\ ~loadConfig(cfgFile).err
    /\ mux.writer = "none"
    /\ cfgW' = [cfgW EXCEPT !.pc = "init", !.stat = cfgFile.mtime,
                            !.new = loadConfig(cfgFile).cfg]
    /\ mux' = [mux EXCEPT !.writer = "routes"]
    /\ UNCHANGED <<proc, cfgFile, files, config, certPath, keyPath, cert,
                   certW, now, cache, rateLimiters, reqs, hs, notes, hist>>

\* Lock() returns; initializeRoutes rebuilds routes and defaultRoute and
\* unlocks
initializeRoutes ==
    /\ proc = "running"
    /\ cfgW.pc = "init"
    /\ LockOK(mux, "routes")
    /\ config' = cfgW.new
    /\ mux' = [mux EXCEPT !.writer = "none"]
    /\ cfgW' = [cfgW EXCEPT !.pc = "poll", !.last = cfgW.stat]
    /\ UNCHANGED <<proc, cfgFile, files, certPath, keyPath, cert,
                   certW, now, cache, rateLimiters, reqs, hs, notes, hist>>

\* config files with a '*' route
RoutesContents == {"D", "E"}

\* requests on the plaintext listener
RoutesRequests ==
    {Req("GET", FALSE, h, URL("", "", <<"/", "x">>), <<>>, <<>>, FALSE,
         <<"10.0.0.1", "5000">>) : h \in {HostMain, HostOther}}

NextRoutes ==
    \/ \E content \in RoutesContents : EditConfig(content)
    \/ reloadConfig
    \/ initializeRoutes
    \/ \E r \in CfgSlots :
          \/ \E req \in RoutesRequests : routeHandlerRLock(r, req)
          \/ getRouteRLock(r)
          \/ getRouteReturn(r)
          \/ routeHandlerRUnlock(r)

SpecRoutes == InitReload /\ [][NextRoutes]_vars

\* C36: no state is reachable in which a handler and the reload wait on
\* each other through the routes lock: whenever the reload waits for the
\* lock, a handler that holds it is at a point from which it goes on to
\* release it.
C36_NoDeadlock ==
    (cfgW.pc = "init" /\ mux.readers # {}) =>
        \E r \in Slots : reqs[r].pc \in {"inner", "routed"}

\* C37: a request answered from the cache is a GET request.
C37_CacheReadGetOnly ==
    \A r \in Slots : reqs[r].stage = "cache" => reqs[r].req.method = "GET"

\* C38: a response replayed from the cache is gzip-encoded only if the
\* request it answers advertised gzip.
C38_ReplayEncoding ==
    \A r \in Slots :
        (reqs[r].stage = "cache" /\ reqs[r].reply.hdr.enc = "gzip") => reqs[r].req.gzip

-----------------------------------------------------------------------------
(* SpecLeak: two clients ask for one URL over TLS, one of them with a      *)
(* session cookie or with credentials; the backend may set a cookie        *)

LeakRequests ==
    LET get(ip) == Req("GET", TRUE, T3000.host, URL("https", T3000.host, <<"/", "x">>),
                       <<>>, <<>>, FALSE, <<ip, "5000">>)
    IN {WithCookie(get("10.0.0.1"), "sid=a"),
        WithAuthorization(get("10.0.0.1"), "Basic a"),
        get("10.0.0.1"), get("10.0.0.2")}

LeakResponses ==
    {BResp("none", StatusOK,
           [Hdr(<<"text/", "html">>, "", <<>>, <<>>) EXCEPT !.setCookie = sc], <<"a">>) :
        sc \in {"", "sid=a"}}

NextLeak ==
    \/ \E req \in LeakRequests : HandlerBegin(1, req, MaxStoreReqs)
    \/ HandlerCheck(1)
    \/ \E b \in LeakResponses : HandlerDispatch(1, b, TRUE)
    \/ Tick

SpecLeak == InitOrder /\ [][NextLeak]_vars

\* C39: a response the backend gave to a request with a Cookie or an
\* Authorization header, or one that sets a cookie, is replayed from the
\* cache only to the client it was given to.
C39_NoLeak ==
    \A r \in Slots :
        reqs[r].stage = "cache" =>
            LET src == hist.lastFetch.req
            IN (\/ src.cookie # "" \/ src.auth # ""
                \/ reqs[r].entry.headers.setCookie # "")
               => ClientIP(src) = ClientIP(reqs[r].req)

-----------------------------------------------------------------------------
(* SpecPanic: requests with and without a port in RemoteAddr, for hosts    *)
(* whose targets are a URL, a short string and a string that does not      *)
(* parse, and a WebSocket upgrade                                           *)

PanicConfig ==
    Cfg(":80", ":443", "./certificate", "certificate.pem", "key.pem",
        MkMap((HostMain :> T3000) @@ (HostApp :> TShort) @@ (HostBad :> TBad)),
        MkMap(HostMain :> TRUE), MkMap(EmptyKV))

PanicRequests ==
    LET get(h, ra) == Req("GET", TRUE, h, URL("", "", <<"/", "x">>), <<>>, <<>>,
                          FALSE, ra)
    IN {get(h, ra) : h \in {HostMain, HostApp, HostBad},
                     ra \in {<<"10.0.0.1", "5000">>, <<"">>}}
       \cup {WithUpgrade(get(HostMain, <<"10.0.0.1", "5000">>), "websocket")}

NextPanic ==
    \E r \in CfgSlots :
        \/ \E req \in PanicRequests : HandlerBegin(r, req, MaxFirstReqs)
        \/ HandlerPanic(r)
        \/ HandlerCheck(r)
        \/ \E b \in PlainResponses : HandlerDispatch(r, b, TRUE)
        \/ \E hj \in HijackOutcomes : HandlerWebSocket(r, hj)

SpecPanic == Running("custom", PanicConfig) /\ [][NextPanic]_vars

\* C40: whatever the remote address and the target, a request the handler
\* is through with got a response or a tunnel to the target, and no longer
\* holds the read lock.
C40_NeverFails ==
    \A r \in Slots :
        reqs[r].pc = "done" =>
            /\ \/ reqs[r].reply.status # 0
               \/ reqs[r].hijack = "ok" /\ reqs[r].dial \notin {"", "panic"}
            /\ r \notin mux.readers
====
